---- MODULE Spec2Model ----
(***************************************************************************)
(* Document-tree synchronisation of an OpenAPI specification into a wiki   *)
(* space (postman2confluence/scripts/openapi2confluence.py and the older   *)
(* postmand2confluence/openapi2confluence.py).                             *)
(*                                                                         *)
(* The scripts are sequential Python: every function is translated into an *)
(* operator that threads a "world" record w through the remote requests in *)
(* program order.  w holds the remote wiki (pages, atts, nextId), the      *)
(* request log, the pending exception (err) and the fault oracle.  Every   *)
(* operator returns [w |-> world after, v |-> returned value]; a raised    *)
(* exception is w.err # "ok", and each caller propagates it exactly where  *)
(* the Python code has no try/except (it has none at all).                 *)
(*                                                                         *)
(* The remote wiki is an environment, modelled as Confluence behaves:      *)
(*   - a page title is unique within the space (spec section 3);           *)
(*   - a CQL "ancestor = X" search matches every descendant of X, not only *)
(*     its direct children (spec glossary, "Ancestor/parent scoping");     *)
(*   - GET /child/page lists the direct children only;                     *)
(*   - DELETE of a page removes that page and its attachments, and the     *)
(*     children of the deleted page move up to its parent;                 *)
(*   - an attachment filename is unique on its page; a plain upload of an  *)
(*     existing filename is rejected with status 400 "Cannot add a new     *)
(*     attachment with same file name"; an upload with replace=true        *)
(*     replaces it when the deployment allows (replaceOk) and is rejected  *)
(*     with the same error when it does not.                               *)
(***************************************************************************)
EXTENDS Integers, Sequences, FiniteSets, TLC

VARIABLES
    pages,              \* remote: set of [id, title, parent, body, version]
    atts,               \* remote: set of [id, page, filename, content]
    nextId,             \* remote: next content identifier to hand out
    replaceOk,          \* remote deployment: replace=true uploads are honoured
    log,                \* requests issued by the last call / the current run
    err,                \* "ok", or the error the last call / run raised
    ret,                \* value returned by the last call (None if it raised)
    call,               \* the last function-level call and its arguments
    pre,                \* the remote as it was before the last call / run
    pc,                 \* position of main(): idle, master, parent, children, prune, done, failed
    runs,               \* number of runs of main() started so far
    partials,           \* main(): sequence of group names still to process
    spec,               \* main(): the groups of the specification of this run
    master_id,          \* main(): local variable
    partials_parent_id, \* main(): local variable
    partial_titles,     \* main(): local variable (a list in the code)
    hist                \* history: the remote and the log at the end of each successful run

vars == <<pages, atts, nextId, replaceOk, log, err, ret, call, pre, pc, runs,
          partials, spec, master_id, partials_parent_id, partial_titles, hist>>

remoteVars == <<pages, atts, nextId, replaceOk>>
mainVars == <<pc, runs, partials, spec, master_id, partials_parent_id, partial_titles, hist>>

-----------------------------------------------------------------------------
(* Values *)

None == 0                       \* Python None / a falsy identifier
NoTitle == <<>>
NoFile == <<>>

\* Path segments that follow /api/v3 in the specification: the group names.
GroupNames == {<<"w">>, <<"g">>}

\* str.capitalize(): first character upper case, the rest lower case.
LowerCase == <<"a", "b", "c", "d", "e", "f", "g", "h", "i", "j", "k", "l", "m",
               "n", "o", "p", "q", "r", "s", "t", "u", "v", "w", "x", "y", "z">>
UpperCase == <<"A", "B", "C", "D", "E", "F", "G", "H", "I", "J", "K", "L", "M",
               "N", "O", "P", "Q", "R", "S", "T", "U", "V", "W", "X", "Y", "Z">>
Upper(c) == IF \E i \in DOMAIN LowerCase : LowerCase[i] = c
            THEN UpperCase[CHOOSE i \in DOMAIN LowerCase : LowerCase[i] = c] ELSE c
Lower(c) == IF \E i \in DOMAIN UpperCase : UpperCase[i] = c
            THEN LowerCase[CHOOSE i \in DOMAIN UpperCase : UpperCase[i] = c] ELSE c
Capitalize(s) ==
    IF s = <<>> THEN <<>>
    ELSE <<Upper(s[1])>> \o [i \in 1..(Len(s) - 1) |-> Lower(s[i + 1])]

\* f"{group_name.capitalize()} Endpoints"
PageTitle(group_name) == Capitalize(group_name) \o <<" Endpoints">>

MasterTitle == <<"Platform Public API">>
PartialsTitle == <<"API Endpoints">>

\* f"{group}.openapi.yaml", and its basename
PartialFileName(group) == group \o <<".openapi.yaml">>
MasterFileName == <<"master.yaml">>

\* A file on disk: its basename and its text.
File(name, text) == [name |-> name, text |-> text]
MasterFile(groups) == File(MasterFileName, [doc |-> <<"master">>, groups |-> groups])
PartialFile(group) == File(PartialFileName(group), [doc |-> group, groups |-> {group}])
OldText == [doc |-> <<"old">>, groups |-> {}]
NoText == [doc |-> <<>>, groups |-> {}]

\* Page bodies.
Body(kind, text, att) == [kind |-> kind, text |-> text, att |-> att]
MasterPlaceholder == Body("master_placeholder", NoText, NoFile)
PartialPlaceholder == Body("partial_placeholder", NoText, NoFile)
PartialsParentBody == Body("partials_parent", NoText, NoFile)
ManualBody == Body("manual", NoText, NoFile)

\* render_entire_file_as_text: the template is filled with the text of the
\* file at file_path and the attachment filename.
render_entire_file_as_text(file, attachment_filename) ==
    Body("final", file.text, attachment_filename)

Page(id, title, parent, body, version) ==
    [id |-> id, title |-> title, parent |-> parent, body |-> body, version |-> version]
Att(id, page, filename, content) ==
    [id |-> id, page |-> page, filename |-> filename, content |-> content]

\* A logged request: the operation, the identifier in its URL or query, the
\* title, file name and body it carries, its result, the identifier in the
\* answer and the version number it carries (GET: read, PUT: submitted).
NoBody == Body("none", NoText, NoFile)
Req(op, id, title, file) ==
    [op |-> op, id |-> id, title |-> title, file |-> file, body |-> NoBody,
     res |-> "ok", out |-> None, version |-> None]
ReqBody(op, id, title, body) == [Req(op, id, title, NoFile) EXCEPT !.body = body]

DupMessage == "400 Cannot add a new attachment with same file name"
Timeout == "timeout"            \* no response: requests raises at once
ErrorKinds == {DupMessage, "400", "401", "500", Timeout}
OtherWriter == "other writer"   \* not an error: somebody else edits the page first
EditedBody == Body("edited", NoText, NoFile)
NoFault == [at |-> 0, kind |-> "ok"]

-----------------------------------------------------------------------------
(* The remote wiki *)

PageById(ps, id) == CHOOSE p \in ps : p.id = id
HasPage(ps, id) == \E p \in ps : p.id = id

RECURSIVE Ancestors(_, _, _)
\* The identifiers of the proper ancestors of page id (fuel bounds the climb).
Ancestors(ps, id, fuel) ==
    IF fuel = 0 \/ ~HasPage(ps, id) THEN {}
    ELSE LET par == PageById(ps, id).parent
         IN IF par = None THEN {} ELSE {par} \cup Ancestors(ps, par, fuel - 1)

AncestorsOf(ps, id) == Ancestors(ps, id, Cardinality(ps))

MinId(S) == CHOOSE x \in S : \A y \in S : x <= y

RECURSIVE SortedIds(_)
SortedIds(S) == IF S = {} THEN <<>> ELSE <<MinId(S)>> \o SortedIds(S \ {MinId(S)})

\* The next request is the one the fault oracle makes fail.
FaultNow(w) == w.fault.at = Len(w.log) + 1 /\ w.fault.kind # OtherWriter

\* Another writer of the space saves page id just before the next request
\* arrives: the remote stores that body and raises the version by one.
EditNow(w) == w.fault.at = Len(w.log) + 1 /\ w.fault.kind = OtherWriter
Edited(ps, id) ==
    {IF p.id = id THEN [p EXCEPT !.body = EditedBody, !.version = @ + 1] ELSE p : p \in ps}

Raise(w, r, kind) ==
    [w |-> [w EXCEPT !.log = Append(@, [r EXCEPT !.res = kind]), !.err = kind],
     v |-> None]

Answer(w, r, v) == [w |-> [w EXCEPT !.log = Append(@, r)], v |-> v]
AnswerId(w, r, id) == Answer(w, [r EXCEPT !.out = id], id)

World(ps, as, nid, rok, fault) ==
    [pages |-> ps, atts |-> as, nextId |-> nid, replaceOk |-> rok,
     log |-> <<>>, err |-> "ok", fault |-> fault]

-----------------------------------------------------------------------------
(* 3) Confluence page create/overwrite and stale page pruning *)

\* GET /rest/api/content/search, cql: space AND title AND ancestor=<id>;
\* returns results[0]["id"], or None when there is no result.
find_page_by_title_ancestor(w, title, ancestor_id) ==
    LET r == Req("search_ancestor", ancestor_id, title, NoFile)
        hits == {p.id : p \in {q \in w.pages :
                    q.title = title /\ ancestor_id \in AncestorsOf(w.pages, q.id)}}
    IN IF FaultNow(w) THEN Raise(w, r, w.fault.kind)
       ELSE AnswerId(w, r, IF hits = {} THEN None ELSE MinId(hits))

\* GET /rest/api/content/search, cql: space AND title.
find_page_by_title_space(w, title) ==
    LET r == Req("search_space", None, title, NoFile)
        hits == {p.id : p \in {q \in w.pages : q.title = title}}
    IN IF FaultNow(w) THEN Raise(w, r, w.fault.kind)
       ELSE AnswerId(w, r, IF hits = {} THEN None ELSE MinId(hits))

\* POST /rest/api/content; "ancestors" is sent only for a truthy parent_id.
create_page(w, title, parent_id, content) ==
    LET r == ReqBody("create", parent_id, title, content)
        new == Page(w.nextId, title, parent_id, content, 1)
    IN IF FaultNow(w) THEN Raise(w, r, w.fault.kind)
       ELSE IF \E p \in w.pages : p.title = title THEN Raise(w, r, "400")
       ELSE IF parent_id # None /\ ~HasPage(w.pages, parent_id) THEN Raise(w, r, "400")
       ELSE AnswerId([w EXCEPT !.pages = @ \cup {new}, !.nextId = @ + 1], r, new.id)

\* update_page with a plausible "optimisation": an unchanged body is not re-submitted.
update_page_skip_noop(w, page_id, title, new_content) ==
    LET g == Req("get", page_id, NoTitle, NoFile)
        u == ReqBody("put", page_id, title, new_content)
    IN IF FaultNow(w) THEN Raise(w, g, w.fault.kind)
       ELSE IF ~HasPage(w.pages, page_id) THEN Raise(w, g, "404")
       ELSE LET old == PageById(w.pages, page_id)
                w1 == Answer(w, g, old.version).w
                new == [old EXCEPT !.title = title, !.body = new_content,
                                   !.version = old.version + 1]
            IN IF old.body = new_content THEN [w |-> w1, v |-> page_id]
               ELSE IF FaultNow(w1) THEN Raise(w1, u, w1.fault.kind)
               ELSE AnswerId([w1 EXCEPT !.pages = (@ \ {old}) \cup {new}], u, page_id)

\* requests.get(get_url): page_data["version"]["number"]
get_page_version(w, page_id) ==
    LET g == Req("get", page_id, NoTitle, NoFile)
        wg == [w EXCEPT !.pages = IF EditNow(w) THEN Edited(@, page_id) ELSE @]
    IN IF FaultNow(w) THEN Raise(w, g, w.fault.kind)
       ELSE IF ~HasPage(wg.pages, page_id) THEN Raise(wg, g, "404")
       ELSE LET number == PageById(wg.pages, page_id).version
            IN Answer(wg, [g EXCEPT !.version = number], number)

\* requests.put(put_url, json=data): the remote accepts a PUT only if it
\* carries the stored version + 1 (else 409).
put_page(w, page_id, title, new_content, version) ==
    LET wp == [w EXCEPT !.pages = IF EditNow(w) THEN Edited(@, page_id) ELSE @]
        u == [ReqBody("put", page_id, title, new_content) EXCEPT !.version = version]
    IN IF FaultNow(w) THEN Raise(w, u, w.fault.kind)
       ELSE IF ~HasPage(wp.pages, page_id) THEN Raise(wp, u, "404")
       ELSE LET old == PageById(wp.pages, page_id)
                new == [old EXCEPT !.title = title, !.body = new_content,
                                   !.version = version]
            IN IF version # old.version + 1 THEN Raise(wp, u, "409")
               ELSE IF \E p \in wp.pages : p.id # page_id /\ p.title = title
                    THEN Raise(wp, u, "400")
               ELSE AnswerId([wp EXCEPT !.pages = (@ \ {old}) \cup {new}], u, page_id)

\* update_page that does not read the version: it submits 2, the version that
\* follows the one a page has right after its creation.
update_page_no_read(w, page_id, title, new_content) ==
    put_page(w, page_id, title, new_content, 2)

\* update_page that answers a rejected PUT (409) by reading the version again
\* and submitting the update once more.
update_page_retry_on_conflict(w, page_id, title, new_content) ==
    LET got == get_page_version(w, page_id)
        first == IF got.w.err # "ok" THEN got
                 ELSE put_page(got.w, page_id, title, new_content, got.v + 1)
        again == get_page_version([first.w EXCEPT !.err = "ok"], page_id)
    IN IF first.w.err # "409" THEN first
       ELSE IF again.w.err # "ok" THEN again
       ELSE put_page(again.w, page_id, title, new_content, again.v + 1)

\* GET the page for its version, then PUT version + 1 with the new body.
update_page(w, page_id, title, new_content) ==
    LET got == get_page_version(w, page_id)
        current_version == got.v
    IN IF got.w.err # "ok" THEN got
       ELSE put_page(got.w, page_id, title, new_content, current_version + 1)

create_or_overwrite_page(w, title, parent_id, content) ==
    LET found == IF parent_id # None
                 THEN find_page_by_title_ancestor(w, title, parent_id)
                 ELSE find_page_by_title_space(w, title)
        existing_id == found.v
    IN IF found.w.err # "ok" THEN found
       ELSE IF existing_id # None
            THEN update_page(found.w, existing_id, title, content)
            ELSE create_page(found.w, title, parent_id, content)

\* postmand2confluence variant: the lookup is by space and title, whatever parent_id is.
create_or_update_page(w, title, parent_id, content) ==
    LET found == find_page_by_title_space(w, title)
        existing_page_id == found.v
    IN IF found.w.err # "ok" THEN found
       ELSE IF existing_page_id # None
            THEN update_page(found.w, existing_page_id, title, content)
            ELSE create_page(found.w, title, parent_id, content)

\* postmand2confluence variant: the same search as find_page_by_title_ancestor, inlined.
create_or_update_subpage(w, parent_page_id, title, content) ==
    LET found == find_page_by_title_ancestor(w, title, parent_page_id)
        page_id == found.v
    IN IF found.w.err # "ok" THEN found
       ELSE IF page_id # None
            THEN update_page(found.w, page_id, title, content)
            ELSE create_page(found.w, title, parent_page_id, content)

\* A listing of every descendant of parent_id instead of its direct children.
list_descendant_pages(w, parent_id) ==
    LET r == Req("list_children", parent_id, NoTitle, NoFile)
        kids == {p \in w.pages : parent_id \in AncestorsOf(w.pages, p.id)}
        ids == SortedIds({p.id : p \in kids})
    IN IF FaultNow(w) THEN [Raise(w, r, w.fault.kind) EXCEPT !.v = <<>>]
       ELSE IF ~HasPage(w.pages, parent_id) THEN [Raise(w, r, "404") EXCEPT !.v = <<>>]
       ELSE Answer(w, r, [i \in 1..Len(ids) |->
                            <<ids[i], PageById(w.pages, ids[i]).title>>])

\* GET /rest/api/content/<parent_id>/child/page: [(id, title), ...]
list_child_pages(w, parent_id) ==
    LET r == Req("list_children", parent_id, NoTitle, NoFile)
        kids == {p \in w.pages : p.parent = parent_id}
        ids == SortedIds({p.id : p \in kids})
    IN IF FaultNow(w) THEN [Raise(w, r, w.fault.kind) EXCEPT !.v = <<>>]
       ELSE IF ~HasPage(w.pages, parent_id) THEN [Raise(w, r, "404") EXCEPT !.v = <<>>]
       ELSE Answer(w, r, [i \in 1..Len(ids) |->
                            <<ids[i], PageById(w.pages, ids[i]).title>>])

\* DELETE /rest/api/content/<page_id>
delete_page(w, page_id) ==
    LET r == Req("delete_page", page_id, NoTitle, NoFile)
    IN IF FaultNow(w) THEN Raise(w, r, w.fault.kind)
       ELSE IF ~HasPage(w.pages, page_id) THEN Raise(w, r, "404")
       ELSE LET gone == PageById(w.pages, page_id)
                moved == {IF p.parent = page_id THEN [p EXCEPT !.parent = gone.parent] ELSE p :
                            p \in w.pages \ {gone}}
            IN Answer([w EXCEPT !.pages = moved,
                                !.atts = {a \in @ : a.page # page_id}], r, None)

RECURSIVE prune_loop(_, _, _, _)
\* for (child_id, child_title) in existing_children: ...
prune_loop(w, existing_children, i, valid_titles) ==
    IF i > Len(existing_children) THEN [w |-> w, v |-> None]
    ELSE LET child_id == existing_children[i][1]
             child_title == existing_children[i][2]
         IN IF child_title \notin valid_titles
            THEN LET d == delete_page(w, child_id)
                 IN IF d.w.err # "ok" THEN d
                    ELSE prune_loop(d.w, existing_children, i + 1, valid_titles)
            ELSE prune_loop(w, existing_children, i + 1, valid_titles)

prune_stale_pages(w, parent_id, valid_titles) ==
    LET listed == list_child_pages(w, parent_id)
        existing_children == listed.v
    IN IF listed.w.err # "ok" THEN [w |-> listed.w, v |-> None]
       ELSE prune_loop(listed.w, existing_children, 1, valid_titles)

-----------------------------------------------------------------------------
(* 4) Overwrite-friendly attachments with fallback *)

\* requests.post(.../child/attachment[?replace=true], files=...): the response.
\* v is the response status ("ok" for resp.ok); nothing is raised here.
post_attachment(w, page_id, file, replace) ==
    LET r == Req(IF replace THEN "upload_replace" ELSE "upload", page_id, NoTitle, file.name)
        same == {a \in w.atts : a.page = page_id /\ a.filename = file.name}
        Status(kind) == [w |-> [w EXCEPT !.log = Append(@, [r EXCEPT !.res = kind])], v |-> kind]
    IN IF FaultNow(w) /\ w.fault.kind = Timeout THEN Raise(w, r, Timeout)
       ELSE IF FaultNow(w) THEN Status(w.fault.kind)
       ELSE IF ~HasPage(w.pages, page_id) THEN Status("404")
       ELSE IF same = {}
            THEN Answer([w EXCEPT !.atts = @ \cup {Att(w.nextId, page_id, file.name, file.text)},
                                  !.nextId = @ + 1], r, "ok")
       ELSE IF replace /\ w.replaceOk
            THEN Answer([w EXCEPT !.atts = {IF a \in same THEN [a EXCEPT !.content = file.text]
                                            ELSE a : a \in @}], r, "ok")
       ELSE Status(DupMessage)

\* resp.raise_for_status() on a response that is not ok.
raise_for_status(x) == [w |-> [x.w EXCEPT !.err = x.v], v |-> None]

\* GET .../child/attachment?filename=<filename>: results[0]["id"] or None
find_attachment_id_by_filename(w, page_id, filename) ==
    LET r == Req("find_attachment", page_id, NoTitle, filename)
        hits == {a.id : a \in {b \in w.atts : b.page = page_id /\ b.filename = filename}}
    IN IF FaultNow(w) THEN Raise(w, r, w.fault.kind)
       ELSE IF ~HasPage(w.pages, page_id) THEN Raise(w, r, "404")
       ELSE AnswerId(w, r, IF hits = {} THEN None ELSE MinId(hits))

\* requests.delete(.../rest/api/content/<att_id>), then r.raise_for_status()
delete_attachment(w, att_id, filename) ==
    LET r == Req("delete_attachment", att_id, NoTitle, filename)
    IN IF FaultNow(w) THEN Raise(w, r, w.fault.kind)
       ELSE IF ~\E a \in w.atts : a.id = att_id THEN Raise(w, r, "404")
       ELSE Answer([w EXCEPT !.atts = {a \in @ : a.id # att_id}], r, None)

\* fallback_delete_existing_attachment without the raise_for_status() after the
\* delete: a failed delete is only printed.
fallback_delete_unchecked(w, page_id, filename) ==
    LET found == find_attachment_id_by_filename(w, page_id, filename)
        att_id == found.v
        del == delete_attachment(found.w, att_id, filename)
    IN IF found.w.err # "ok" THEN found
       ELSE IF att_id # None THEN [w |-> [del.w EXCEPT !.err = "ok"], v |-> None]
       ELSE [w |-> found.w, v |-> None]

\* fallback_delete_existing_attachment that gives up when the lookup finds no
\* attachment of that name.
fallback_delete_must_exist(w, page_id, filename) ==
    LET found == find_attachment_id_by_filename(w, page_id, filename)
        att_id == found.v
    IN IF found.w.err # "ok" THEN found
       ELSE IF att_id # None THEN delete_attachment(found.w, att_id, filename)
       ELSE [w |-> [found.w EXCEPT !.err = "404"], v |-> None]

fallback_delete_existing_attachment(w, page_id, filename) ==
    LET found == find_attachment_id_by_filename(w, page_id, filename)
        att_id == found.v
    IN IF found.w.err # "ok" THEN found
       ELSE IF att_id # None THEN delete_attachment(found.w, att_id, filename)
       ELSE [w |-> found.w, v |-> None]

\* upload_attachment_with_overwrite that takes every status 400 for the
\* duplicate-filename rejection (the message is not looked at).
IsStatus400(status) == status \in {DupMessage, "400"}
upload_attachment_any_400(w, page_id, file) ==
    LET filename == file.name
        resp == post_attachment(w, page_id, file, TRUE)
    IN IF resp.w.err # "ok" THEN [w |-> resp.w, v |-> None]
       ELSE IF resp.v = "ok" THEN [w |-> resp.w, v |-> filename]
       ELSE IF IsStatus400(resp.v)
            THEN LET fb == fallback_delete_existing_attachment(resp.w, page_id, filename)
                     resp2 == post_attachment(fb.w, page_id, file, FALSE)
                 IN IF fb.w.err # "ok" THEN [w |-> fb.w, v |-> None]
                    ELSE IF resp2.w.err # "ok" THEN [w |-> resp2.w, v |-> None]
                    ELSE IF resp2.v # "ok" THEN raise_for_status(resp2)
                    ELSE [w |-> resp2.w, v |-> filename]
       ELSE raise_for_status(resp)

\* upload_attachment_with_overwrite whose fallback re-uploads without deleting.
upload_attachment_no_delete(w, page_id, file) ==
    LET filename == file.name
        resp == post_attachment(w, page_id, file, TRUE)
    IN IF resp.w.err # "ok" THEN [w |-> resp.w, v |-> None]
       ELSE IF resp.v = "ok" THEN [w |-> resp.w, v |-> filename]
       ELSE IF resp.v = DupMessage
            THEN LET fb == find_attachment_id_by_filename(resp.w, page_id, filename)
                     resp2 == post_attachment(fb.w, page_id, file, FALSE)
                 IN IF fb.w.err # "ok" THEN [w |-> fb.w, v |-> None]
                    ELSE IF resp2.w.err # "ok" THEN [w |-> resp2.w, v |-> None]
                    ELSE IF resp2.v # "ok" THEN raise_for_status(resp2)
                    ELSE [w |-> resp2.w, v |-> filename]
       ELSE raise_for_status(resp)

\* upload_attachment_with_overwrite that takes the duplicate-filename rejection
\* to mean that the file is attached already.
upload_attachment_keep_existing(w, page_id, file) ==
    LET filename == file.name
        resp == post_attachment(w, page_id, file, TRUE)
    IN IF resp.w.err # "ok" THEN [w |-> resp.w, v |-> None]
       ELSE IF resp.v = "ok" THEN [w |-> resp.w, v |-> filename]
       ELSE IF resp.v = DupMessage THEN [w |-> resp.w, v |-> filename]
       ELSE raise_for_status(resp)

\* upload_attachment_with_overwrite that repeats a failed replace-mode upload
\* once before it gives up.
upload_attachment_retry_once(w, page_id, file) ==
    LET filename == file.name
        resp == post_attachment(w, page_id, file, TRUE)
        again == post_attachment(resp.w, page_id, file, TRUE)
    IN IF resp.w.err # "ok" THEN [w |-> resp.w, v |-> None]
       ELSE IF resp.v = "ok" THEN [w |-> resp.w, v |-> filename]
       ELSE IF resp.v = DupMessage
            THEN LET fb == fallback_delete_existing_attachment(resp.w, page_id, filename)
                     resp2 == post_attachment(fb.w, page_id, file, FALSE)
                 IN IF fb.w.err # "ok" THEN [w |-> fb.w, v |-> None]
                    ELSE IF resp2.w.err # "ok" THEN [w |-> resp2.w, v |-> None]
                    ELSE IF resp2.v # "ok" THEN raise_for_status(resp2)
                    ELSE [w |-> resp2.w, v |-> filename]
       ELSE IF again.w.err # "ok" THEN [w |-> again.w, v |-> None]
       ELSE IF again.v # "ok" THEN raise_for_status(again)
       ELSE [w |-> again.w, v |-> filename]

upload_attachment_with_overwrite(w, page_id, file) ==
    LET filename == file.name
        resp == post_attachment(w, page_id, file, TRUE)
    IN IF resp.w.err # "ok" THEN [w |-> resp.w, v |-> None]
       ELSE IF resp.v = "ok" THEN [w |-> resp.w, v |-> filename]
       ELSE IF resp.v = DupMessage
            THEN LET fb == fallback_delete_existing_attachment(resp.w, page_id, filename)
                     resp2 == post_attachment(fb.w, page_id, file, FALSE)
                 IN IF fb.w.err # "ok" THEN [w |-> fb.w, v |-> None]
                    ELSE IF resp2.w.err # "ok" THEN [w |-> resp2.w, v |-> None]
                    ELSE IF resp2.v # "ok" THEN raise_for_status(resp2)
                    ELSE [w |-> resp2.w, v |-> filename]
       ELSE raise_for_status(resp)

-----------------------------------------------------------------------------
(* 5) The two-pass creation logic *)

\* def final_render_master / final_render_partial(attachment_filename=None):
\* the function object main() passes as final_render_func.  Its body reads
\* file_path (args.master_file, or the loop variable partial_file) when it is
\* called; the record holds the value that variable has at the call.
final_render(file_path) == [file_path |-> file_path]

\* final_render_func(attachment_filename=attached_name, **final_render_kwargs)
CallRender(final_render_func, attachment_filename) ==
    render_entire_file_as_text(final_render_func.file_path, attachment_filename)

\* A one-pass variant: the body is rendered with the local file name and
\* written at once; the attachment follows.
one_pass_page_with_attachment(w, page_title, parent_id, page_body_placeholder, file, final_render_func) ==
    LET final_body == CallRender(final_render_func, file.name)
        passA == create_or_overwrite_page(w, page_title, parent_id, final_body)
        page_id == passA.v
        att == upload_attachment_with_overwrite(passA.w, page_id, file)
    IN IF passA.w.err # "ok" THEN passA
       ELSE IF att.w.err # "ok" THEN [w |-> att.w, v |-> None]
       ELSE [w |-> att.w, v |-> page_id]

\* A two-pass flow that puts the previous body back when the attachment step
\* fails on a page that existed.
two_pass_restore_on_failure(w, page_title, parent_id, page_body_placeholder, file, final_render_func) ==
    LET passA == create_or_overwrite_page(w, page_title, parent_id, page_body_placeholder)
        page_id == passA.v
        att == upload_attachment_with_overwrite(passA.w, page_id, file)
        attached_name == att.v
        final_body == CallRender(final_render_func, attached_name)
        undo == update_page([att.w EXCEPT !.err = "ok"], page_id, page_title,
                            PageById(w.pages, page_id).body)
    IN IF passA.w.err # "ok" THEN passA
       ELSE IF att.w.err # "ok" /\ HasPage(w.pages, page_id)
            THEN [w |-> [undo.w EXCEPT !.err = att.w.err], v |-> None]
       ELSE IF att.w.err # "ok" THEN [w |-> att.w, v |-> None]
       ELSE update_page(att.w, page_id, page_title, final_body)

create_or_update_page_with_attachment(w, page_title, parent_id, page_body_placeholder, file, final_render_func) ==
    LET passA == create_or_overwrite_page(w, page_title, parent_id, page_body_placeholder)
        page_id == passA.v
        att == upload_attachment_with_overwrite(passA.w, page_id, file)
        attached_name == att.v
        final_body == CallRender(final_render_func, attached_name)
    IN IF passA.w.err # "ok" THEN passA
       ELSE IF att.w.err # "ok" THEN [w |-> att.w, v |-> None]
       ELSE update_page(att.w, page_id, page_title, final_body)

-----------------------------------------------------------------------------
(* Initial remote states *)

\* The titles a page of the space can carry in the model; an initial page
\* with title InitTitles[i] has identifier i.
InitTitles == <<MasterTitle, PartialsTitle, PageTitle(<<"w">>), PageTitle(<<"g">>)>>
NTitles == Len(InitTitles)

RECURSIVE Climb(_, _, _)
Climb(par, i, k) == IF i = None THEN None ELSE IF k = 0 THEN i ELSE Climb(par, par[i], k - 1)

\* Every forest over every subset of the titles: any page tree of the space.
InitForests ==
    UNION {{ {Page(i, InitTitles[i], par[i], ManualBody, 1) : i \in S} :
               par \in {q \in [S -> S \cup {None}] :
                          \A i \in S : Climb(q, i, Cardinality(S)) = None} } :
           S \in SUBSET (1..NTitles)}

\* The file name under which the sync attaches a document to a page of this title.
DocFileNames(title) ==
    IF title = MasterTitle THEN {MasterFileName}
    ELSE {PartialFileName(g) : g \in {h \in GroupNames : PageTitle(h) = title}}

\* Attachments left by earlier syncs: every page carries its document, old text.
SeededAtts(ps) ==
    {Att(NTitles + p.id, p.id, CHOOSE f \in DocFileNames(p.title) : TRUE, OldText) :
        p \in {q \in ps : DocFileNames(q.title) # {}}}

FirstFreeId == 2 * NTitles + 1

NoCall == [fn |-> "none", title |-> NoTitle, parent |-> None, body |-> ManualBody,
           file |-> File(NoFile, NoText), valid |-> {}, fault |-> NoFault]
Snapshot == [pages |-> pages, atts |-> atts, nextId |-> nextId]
NoSnapshot == [pages |-> {}, atts |-> {}, nextId |-> 0]

InitRemote ==
    /\ pages \in InitForests
    /\ \E seeded \in BOOLEAN : atts = IF seeded THEN SeededAtts(pages) ELSE {}
    /\ nextId = FirstFreeId
    /\ replaceOk \in BOOLEAN

InitLocals ==
    /\ log = <<>>
    /\ err = "ok"
    /\ ret = None
    /\ call = NoCall
    /\ pre = NoSnapshot
    /\ pc = "idle"
    /\ runs = 0
    /\ partials = <<>>
    /\ spec = <<>>
    /\ master_id = None
    /\ partials_parent_id = None
    /\ partial_titles = <<>>
    /\ hist = <<>>

Init == InitRemote /\ InitLocals

-----------------------------------------------------------------------------
(* 6) main() *)

MaxRuns == 2

\* split_openapi_by_path_segment yields the groups in the order in which the
\* master document first names them: any sequence of distinct group names.
SpecChoices ==
    {q \in UNION {[1..n -> GroupNames] : n \in 0..Cardinality(GroupNames)} :
        \A i, j \in 1..Len(q) : i # j => q[i] # q[j]}

Range(q) == {q[i] : i \in 1..Len(q)}

CurrentWorld(fault) ==
    [pages |-> pages, atts |-> atts, nextId |-> nextId, replaceOk |-> replaceOk,
     log |-> log, err |-> "ok", fault |-> fault]

\* A step that, when it raises, puts the wiki back as it was when the run began.
CommitRollback(x) ==
    /\ pages' = IF x.w.err = "ok" THEN x.w.pages ELSE pre.pages
    /\ atts' = IF x.w.err = "ok" THEN x.w.atts ELSE pre.atts
    /\ nextId' = x.w.nextId
    /\ log' = x.w.log
    /\ err' = x.w.err
    /\ UNCHANGED replaceOk

\* The remote and the log after a step; a raised exception ends main().
Commit(x) ==
    /\ pages' = x.w.pages
    /\ atts' = x.w.atts
    /\ nextId' = x.w.nextId
    /\ log' = x.w.log
    /\ err' = x.w.err
    /\ UNCHANGED replaceOk

\* partials = split_openapi_by_path_segment(args.master_file, args.output_dir)
StartRun ==
    /\ pc \in {"idle", "done", "failed"}
    /\ runs < MaxRuns
    /\ \E groups \in SpecChoices :
         /\ spec' = groups
         /\ partials' = groups
    /\ runs' = runs + 1
    /\ pc' = "master"
    /\ pre' = Snapshot
    /\ log' = <<>>
    /\ err' = "ok"
    /\ ret' = None
    /\ master_id' = None
    /\ partials_parent_id' = None
    /\ partial_titles' = <<>>
    /\ UNCHANGED <<remoteVars, call, hist>>

\* 2) Two-pass creation for MASTER (args.parent_page_id is left at its default)
ProcessMaster(fault) ==
    /\ pc = "master"
    /\ LET final_render_master == final_render(MasterFile(Range(spec)))
           x == create_or_update_page_with_attachment(CurrentWorld(fault),
                    MasterTitle, None, MasterPlaceholder, MasterFile(Range(spec)),
                    final_render_master)
       IN /\ Commit(x)
          /\ master_id' = x.v
          /\ pc' = IF x.w.err = "ok" THEN "parent" ELSE "failed"
    /\ UNCHANGED <<ret, call, pre, runs, partials, spec, partials_parent_id,
                   partial_titles, hist>>

\* 3) Create partials parent page
ProcessPartialsParent(fault) ==
    /\ pc = "parent"
    /\ LET x == create_or_overwrite_page(CurrentWorld(fault),
                    PartialsTitle, master_id, PartialsParentBody)
       IN /\ Commit(x)
          /\ partials_parent_id' = x.v
          /\ pc' = IF x.w.err # "ok" THEN "failed"
                   ELSE IF partials = <<>> THEN "prune" ELSE "children"
    /\ UNCHANGED <<ret, call, pre, runs, partials, spec, master_id, partial_titles, hist>>

\* The loop with the render functions called after it: each of them reads
\* partial_file when the variable holds the file of the last group.
ProcessPartialLateRender(fault) ==
    /\ pc = "children"
    /\ partials # <<>>
    /\ LET group_name == Head(partials)
           partial_file == PartialFile(group_name)
           page_title == PageTitle(group_name)
           final_render_partial == final_render(PartialFile(spec[Len(spec)]))
           x == create_or_update_page_with_attachment(CurrentWorld(fault),
                    page_title, partials_parent_id, PartialPlaceholder,
                    partial_file, final_render_partial)
       IN /\ Commit(x)
          /\ partial_titles' = Append(partial_titles, page_title)
          /\ partials' = Tail(partials)
          /\ pc' = IF x.w.err # "ok" THEN "failed"
                   ELSE IF Tail(partials) = <<>> THEN "prune" ELSE "children"
    /\ UNCHANGED <<ret, call, pre, runs, spec, master_id, partials_parent_id, hist>>

\* The loop with each iteration wrapped in try/except: a page that fails is
\* reported and the loop goes on with the next group.
ProcessPartialKeepGoing(fault) ==
    /\ pc = "children"
    /\ partials # <<>>
    /\ LET group_name == Head(partials)
           partial_file == PartialFile(group_name)
           page_title == PageTitle(group_name)
           final_render_partial == final_render(partial_file)
           x == create_or_update_page_with_attachment(CurrentWorld(fault),
                    page_title, partials_parent_id, PartialPlaceholder,
                    partial_file, final_render_partial)
       IN /\ Commit(x)
          /\ partial_titles' = Append(partial_titles, page_title)
          /\ partials' = Tail(partials)
          /\ pc' = IF Tail(partials) = <<>> THEN "prune" ELSE "children"
    /\ UNCHANGED <<ret, call, pre, runs, spec, master_id, partials_parent_id, hist>>

\* 4) For each partial doc: one iteration of the loop
ProcessPartial(fault) ==
    /\ pc = "children"
    /\ partials # <<>>
    /\ LET group_name == Head(partials)
           partial_file == PartialFile(group_name)
           page_title == PageTitle(group_name)
           final_render_partial == final_render(partial_file)
           x == create_or_update_page_with_attachment(CurrentWorld(fault),
                    page_title, partials_parent_id, PartialPlaceholder,
                    partial_file, final_render_partial)
       IN /\ Commit(x)
          /\ partial_titles' = Append(partial_titles, page_title)
          /\ partials' = Tail(partials)
          /\ pc' = IF x.w.err # "ok" THEN "failed"
                   ELSE IF Tail(partials) = <<>> THEN "prune" ELSE "children"
    /\ UNCHANGED <<ret, call, pre, runs, spec, master_id, partials_parent_id, hist>>

\* Pruning that does not wait for the end of the per-group loop.
PruneEarly(fault) ==
    /\ pc \in {"children", "prune"}
    /\ LET x == prune_stale_pages(CurrentWorld(fault), partials_parent_id,
                                  Range(partial_titles))
       IN /\ Commit(x)
          /\ pc' = IF x.w.err # "ok" THEN "failed"
                   ELSE IF pc = "prune" THEN "done" ELSE pc
          /\ hist' = IF x.w.err = "ok" /\ pc = "prune"
                     THEN Append(hist, [run |-> runs, spec |-> spec, pages |-> x.w.pages,
                                        atts |-> x.w.atts, log |-> x.w.log])
                     ELSE hist
    /\ UNCHANGED <<ret, call, pre, runs, partials, spec, master_id,
                   partials_parent_id, partial_titles>>

\* 5) Prune stale partial pages, then "Done!"
Prune(fault) ==
    /\ pc = "prune"
    /\ LET x == prune_stale_pages(CurrentWorld(fault), partials_parent_id,
                                  Range(partial_titles))
       IN /\ Commit(x)
          /\ pc' = IF x.w.err = "ok" THEN "done" ELSE "failed"
          /\ hist' = IF x.w.err = "ok"
                     THEN Append(hist, [run |-> runs, spec |-> spec, pages |-> x.w.pages,
                                        atts |-> x.w.atts, log |-> x.w.log])
                     ELSE hist
    /\ UNCHANGED <<ret, call, pre, runs, partials, spec, master_id,
                   partials_parent_id, partial_titles>>

Next ==
    \/ StartRun
    \/ ProcessMaster(NoFault)
    \/ ProcessPartialsParent(NoFault)
    \/ ProcessPartial(NoFault)
    \/ Prune(NoFault)

Spec == Init /\ [][Next]_vars

-----------------------------------------------------------------------------
(* prune_stale_pages called on its own *)

TitleSet == {InitTitles[i] : i \in 1..NTitles}

\* The k-th request of a call gets no usable answer (k = 0: every request succeeds).
Faults(maxAt, kinds) == {NoFault} \cup {[at |-> k, kind |-> e] : k \in 1..maxAt, e \in kinds}

Returned(x) ==
    /\ pages' = x.w.pages
    /\ atts' = x.w.atts
    /\ nextId' = x.w.nextId
    /\ log' = x.w.log
    /\ err' = x.w.err
    /\ ret' = x.v
    /\ pre' = Snapshot
    /\ UNCHANGED <<replaceOk, pc, partials, spec, master_id, partials_parent_id,
                   partial_titles>>

InitPrune ==
    /\ pages \in InitForests
    /\ atts = SeededAtts(pages)
    /\ nextId = FirstFreeId
    /\ replaceOk = TRUE
    /\ InitLocals

CallPrune ==
    /\ call.fn = "none"
    /\ \E parent \in {p.id : p \in pages}, valid \in SUBSET TitleSet,
          fault \in Faults(NTitles, {"500"}) :
         /\ call' = [NoCall EXCEPT !.fn = "prune_stale_pages", !.parent = parent,
                                   !.valid = valid, !.fault = fault]
         /\ Returned(prune_stale_pages(World(pages, atts, nextId, replaceOk, fault),
                                       parent, valid))
         /\ UNCHANGED <<runs, hist>>

NextPrune == CallPrune

SpecPrune == InitPrune /\ [][NextPrune]_vars

ChildrenOf(ps, parent) == {p \in ps : p.parent = parent}
Ids(ps) == {p.id : p \in ps}
PruneReturned == call.fn = "prune_stale_pages" /\ err = "ok"

\* C1: when every remote call of prune_stale_pages(parent, valid_titles)
\* succeeds, the deleted pages are exactly the children of the parent whose
\* title is not in valid_titles, every child whose title is in valid_titles is
\* neither deleted nor modified, and afterwards no child of the parent has a
\* title outside valid_titles.
C1_PruneExact ==
    PruneReturned =>
        /\ Ids(pre.pages) \ Ids(pages) =
             Ids({p \in ChildrenOf(pre.pages, call.parent) : p.title \notin call.valid})
        /\ \A p \in ChildrenOf(pre.pages, call.parent) : p.title \in call.valid => p \in pages
        /\ \A p \in ChildrenOf(pages, call.parent) : p.title \in call.valid

\* The part of C1 that the code guarantees (the last conjunct dropped).
C1_DeletedExactly ==
    PruneReturned =>
        /\ Ids(pre.pages) \ Ids(pages) =
             Ids({p \in ChildrenOf(pre.pages, call.parent) : p.title \notin call.valid})
        /\ \A p \in ChildrenOf(pre.pages, call.parent) : p.title \in call.valid => p \in pages

-----------------------------------------------------------------------------
(* Properties of whole runs of main() *)

RunSucceeded == pc = "done"

\* C2: after a successful run, started from any remote page tree, every group
\* of the specification has exactly one page titled "<Group> Endpoints" whose
\* parent is the partials-parent page.
C2_OneChildPerGroup ==
    RunSucceeded =>
        \A g \in Range(spec) :
            Cardinality({p \in pages : p.title = PageTitle(g)
                                       /\ p.parent = partials_parent_id}) = 1

\* What C3 compares: identifiers, titles and parents of the pages, and the
\* attachment filenames of each page.
PageShape(ps) == {[id |-> p.id, title |-> p.title, parent |-> p.parent] : p \in ps}
AttNames(as) == {[page |-> a.page, filename |-> a.filename] : a \in as}
Created(l) == {i \in 1..Len(l) : l[i].op = "create" /\ l[i].res = "ok"}

\* The last two runs succeeded, one right after the other, on the same specification.
TwoRunsInARow ==
    /\ pc = "done"
    /\ Len(hist) >= 2
    /\ hist[Len(hist)].run = hist[Len(hist) - 1].run + 1
    /\ hist[Len(hist)].spec = hist[Len(hist) - 1].spec

\* C3: the second of two successive runs on the same specification creates no
\* page, and leaves the pages (identifiers, titles, parents) and the attachment
\* filenames of every page as they were after the first run.
C3_SecondRunConverges ==
    TwoRunsInARow =>
        LET first == hist[Len(hist) - 1]
            second == hist[Len(hist)]
        IN /\ Created(second.log) = {}
           /\ PageShape(second.pages) = PageShape(first.pages)
           /\ AttNames(second.atts) = AttNames(first.atts)

-----------------------------------------------------------------------------
(* The page upsert called on its own, several times with the same arguments *)

MaxCalls == 2

UpsertFns == {"create_or_overwrite_page", "create_or_update_page"}

Upsert(fn, w, title, parent, body) ==
    IF fn = "create_or_overwrite_page" THEN create_or_overwrite_page(w, title, parent, body)
    ELSE create_or_update_page(w, title, parent, body)

\* One record per finished call: what it returned and the pages before and after.
CallRecord(x) == [ret |-> x.v, err |-> x.w.err, pre |-> pages, pages |-> x.w.pages,
                  log |-> x.w.log]

InitUpsert ==
    /\ pages \in InitForests
    /\ atts = {}
    /\ nextId = FirstFreeId
    /\ replaceOk = TRUE
    /\ InitLocals

UpsertCall(fn, title, parent, body, fault) ==
    LET x == Upsert(fn, World(pages, atts, nextId, replaceOk, fault), title, parent, body)
    IN /\ call' = [NoCall EXCEPT !.fn = fn, !.title = title, !.parent = parent,
                                 !.body = body, !.fault = fault]
       /\ hist' = Append(hist, CallRecord(x))
       /\ runs' = runs + 1
       /\ Returned(x)

\* The first call: any title, with or without a parent, a body equal to the
\* stored one or not.
CallUpsert ==
    /\ call.fn = "none"
    /\ \E fn \in UpsertFns, title \in TitleSet, parent \in {None} \cup Ids(pages),
          body \in {ManualBody, MasterPlaceholder}, fault \in Faults(3, {"500"}) :
         UpsertCall(fn, title, parent, body, fault)

\* The same call again, on the remote as the previous call left it.
CallUpsertAgain ==
    /\ call.fn \in UpsertFns
    /\ runs < MaxCalls
    /\ \E fault \in Faults(3, {"500"}) :
         UpsertCall(call.fn, call.title, call.parent, call.body, fault)

NextUpsert == CallUpsert \/ CallUpsertAgain

SpecUpsert == InitUpsert /\ [][NextUpsert]_vars

VersionOf(ps, id) == PageById(ps, id).version

\* C4: successive calls of create_or_overwrite_page with the same arguments
\* return the same page identifier, and every call that finds the page
\* existing raises its version by exactly 1, also when the body is unchanged.
C4_SameIdVersionPlusOne ==
    call.fn = "create_or_overwrite_page" =>
        \A i \in 1..Len(hist) :
            /\ (i > 1 /\ hist[i - 1].err = "ok" /\ hist[i].err = "ok")
                   => hist[i].ret = hist[i - 1].ret
            /\ (hist[i].err = "ok" /\ HasPage(hist[i].pre, hist[i].ret))
                   => /\ HasPage(hist[i].pages, hist[i].ret)
                      /\ VersionOf(hist[i].pages, hist[i].ret)
                           = VersionOf(hist[i].pre, hist[i].ret) + 1

\* Two successful calls on a page that existed before the first one, both
\* submitting the body the page already had.
C4_Witness ==
    /\ call.fn = "create_or_overwrite_page"
    /\ Len(hist) = 2
    /\ hist[1].err = "ok" /\ hist[2].err = "ok"
    /\ HasPage(hist[1].pre, hist[1].ret)
    /\ PageById(hist[1].pre, hist[1].ret).body = call.body
    /\ PageById(hist[2].pre, hist[2].ret).body = call.body

\* The pages the last call read or wrote through update_page.
Selected == {log[i].id : i \in {j \in 1..Len(log) : log[j].op \in {"get", "put"}}}

\* C5: the page upsert searches by (space, title) only when no parent is
\* given and by (space, title, ancestor = parent) whenever one is given, and
\* with a parent given it never selects a page that is not below that parent.
C5_LookupScoped ==
    call.fn \in UpsertFns =>
        /\ call.parent = None => log[1].op = "search_space"
        /\ call.parent # None =>
             /\ log[1].op = "search_ancestor" /\ log[1].id = call.parent
             /\ \A id \in Selected : call.parent \in AncestorsOf(pre.pages, id)

-----------------------------------------------------------------------------
(* upload_attachment_with_overwrite called on its own *)

\* A wiki of at most two pages, each with or without its document attached.
InitAttach ==
    /\ pages \in {ps \in InitForests : Cardinality(ps) <= 2}
    /\ \E seeded \in BOOLEAN : atts = IF seeded THEN SeededAtts(pages) ELSE {}
    /\ nextId = FirstFreeId
    /\ replaceOk \in BOOLEAN
    /\ InitLocals

\* Any page (also one that does not exist), the master file or a partial, and
\* any request of the call failing in any way.
CallAttach ==
    /\ call.fn = "none"
    /\ \E page_id \in Ids(pages) \cup {FirstFreeId},
          file \in {MasterFile({}), PartialFile(<<"w">>)},
          fault \in Faults(4, ErrorKinds) :
         /\ call' = [NoCall EXCEPT !.fn = "upload_attachment_with_overwrite",
                                   !.parent = page_id, !.file = file, !.fault = fault]
         /\ Returned(upload_attachment_with_overwrite(
                        World(pages, atts, nextId, replaceOk, fault), page_id, file))
         /\ runs' = runs + 1
         /\ UNCHANGED hist

\* The next run attaches the file of that name to the same page again, with
\* the same or a changed text, on the remote as the previous call left it.
CallAttachAgain ==
    /\ call.fn = "upload_attachment_with_overwrite"
    /\ runs < MaxCalls
    /\ \E file \in {f \in {MasterFile({}), MasterFile({<<"w">>}), PartialFile(<<"w">>)} :
                       f.name = call.file.name},
          fault \in Faults(4, {DupMessage, "500"}) :
         /\ call' = [call EXCEPT !.file = file, !.fault = fault]
         /\ Returned(upload_attachment_with_overwrite(
                        World(pages, atts, nextId, replaceOk, fault), call.parent, file))
         /\ runs' = runs + 1
         /\ UNCHANGED hist

NextAttach == CallAttach \/ CallAttachAgain

SpecAttach == InitAttach /\ [][NextAttach]_vars

AttachCalled == call.fn = "upload_attachment_with_overwrite"
Ops(l) == [i \in 1..Len(l) |-> l[i].op]
Results(l) == [i \in 1..Len(l) |-> l[i].res]
ExistingAtt(as, page_id, filename) == {a \in as : a.page = page_id /\ a.filename = filename}

\* The remote rejects the replace-mode upload as a duplicate filename, the
\* attachment exists, and the remote fails no other request.
DuplicateRejected ==
    /\ AttachCalled
    /\ ExistingAtt(pre.atts, call.parent, call.file.name) # {}
    /\ \/ call.fault = NoFault /\ ~replaceOk
       \/ call.fault = [at |-> 1, kind |-> DupMessage]

\* C6: on a duplicate-filename rejection of the replace-mode upload with the
\* attachment existing, the call issues exactly: replace-mode upload (fails),
\* lookup by filename, delete of that attachment, plain upload (succeeds), and
\* returns the original filename.
C6_FallbackSequence ==
    DuplicateRejected =>
        /\ Ops(log) = <<"upload_replace", "find_attachment", "delete_attachment", "upload">>
        /\ Results(log) = <<DupMessage, "ok", "ok", "ok">>
        /\ \A i \in {1, 2, 4} : log[i].id = call.parent /\ log[i].file = call.file.name
        /\ {log[3].id} = Ids(ExistingAtt(pre.atts, call.parent, call.file.name))
        /\ err = "ok"
        /\ ret = call.file.name

C6_Witness ==
    /\ DuplicateRejected
    /\ call.fault = NoFault
    /\ Len(log) = 4
    /\ ret = call.file.name

\* C7: when the replace-mode upload fails in any way other than the
\* duplicate-filename rejection, no lookup, no delete and no second upload is
\* issued and the error of the primary attempt is raised.
C7_NoFallbackOnOtherErrors ==
    (AttachCalled /\ log[1].res \notin {"ok", DupMessage}) =>
        /\ Len(log) = 1
        /\ log[1].op = "upload_replace"
        /\ err = log[1].res
        /\ ret = None

C7_Witness ==
    /\ AttachCalled
    /\ log[1].res = "400"
    /\ ExistingAtt(pre.atts, call.parent, call.file.name) # {}
    /\ err = "400"

\* C8: in the fallback, a failed lookup, delete or second upload is the last
\* request of the call, its error is raised and no filename is returned.
C8_FallbackFailureIsFatal ==
    AttachCalled =>
        \A i \in 2..Len(log) :
            log[i].res # "ok" => /\ i = Len(log)
                                 /\ err = log[i].res
                                 /\ ret = None

\* The delete of the fallback failed.
C8_Witness ==
    /\ AttachCalled
    /\ Len(log) = 3
    /\ log[3].op = "delete_attachment"
    /\ log[3].res = "500"
    /\ err = "500"

\* The fallback was entered and its lookup was answered.
LookupAnswered ==
    /\ AttachCalled
    /\ Len(log) >= 2
    /\ log[1].res = DupMessage
    /\ log[2].op = "find_attachment"
    /\ log[2].res = "ok"

\* Positions of the requests of a kind in the log of the call.
OpsAt(op) == {i \in 1..Len(log) : log[i].op = op}

\* C23: in the fallback, when the lookup by filename finds nothing, no delete
\* is issued and the plain upload follows the lookup and is issued once; when
\* it finds an attachment, the next request deletes exactly that attachment,
\* and the plain upload, issued once, comes only after that delete succeeded.
C23_DeleteOnlyWhatWasFound ==
    LookupAnswered =>
        IF log[2].out = None
        THEN /\ OpsAt("delete_attachment") = {}
             /\ OpsAt("upload") = {3}
             /\ Len(log) = 3
        ELSE /\ OpsAt("delete_attachment") = {3}
             /\ log[3].id = log[2].out
             /\ log[3].id \in Ids(ExistingAtt(pre.atts, call.parent, call.file.name))
             /\ OpsAt("upload") = IF log[3].res = "ok" THEN {4} ELSE {}
             /\ log[3].res = "ok" =>
                   /\ Len(log) = 4
                   /\ ExistingAtt(pre.atts, call.parent, call.file.name) \cap atts = {}

\* The remote rejected the replace-mode upload as a duplicate although the
\* page has no attachment of that name: the lookup finds nothing and the plain
\* upload succeeds.
C23_Witness ==
    /\ LookupAnswered
    /\ log[2].out = None
    /\ Ops(log) = <<"upload_replace", "find_attachment", "upload">>
    /\ err = "ok"
    /\ ret = call.file.name

\* C25: after a successful call the page holds exactly one attachment of the
\* file's name and it holds the text just uploaded, whether the remote honours
\* replace mode or rejects it; and no page ever holds two attachments of one
\* name, however often the file is attached.
C25_OneAttachmentPerName ==
    /\ (AttachCalled /\ err = "ok") =>
          /\ ret = call.file.name
          /\ Cardinality(ExistingAtt(atts, call.parent, call.file.name)) = 1
          /\ \A a \in ExistingAtt(atts, call.parent, call.file.name) :
                a.content = call.file.text
    /\ \A a, b \in atts : (a.page = b.page /\ a.filename = b.filename) => a = b

\* The second successful call on a remote that rejects replace mode: it
\* replaces, by the fallback, the attachment the first call uploaded, with a
\* changed text.
C25_Witness ==
    /\ AttachCalled
    /\ runs = 2
    /\ ~replaceOk
    /\ err = "ok"
    /\ Len(log) = 4
    /\ \E a \in ExistingAtt(pre.atts, call.parent, call.file.name) :
          a.content \notin {OldText, call.file.text}

-----------------------------------------------------------------------------
(* create_or_update_page_with_attachment called on its own *)

\* The longest call: search, get, put, upload, lookup, delete, upload, get, put.
TwoPassRequests == 9

CallTwoPass ==
    /\ call.fn = "none"
    /\ \E page_title \in TitleSet, parent_id \in {None} \cup Ids(pages),
          doc \in {[file |-> MasterFile({}), body |-> MasterPlaceholder],
                   [file |-> PartialFile(<<"w">>), body |-> PartialPlaceholder]},
          fault \in Faults(TwoPassRequests, {DupMessage, "500"}) :
         /\ call' = [NoCall EXCEPT !.fn = "create_or_update_page_with_attachment",
                                   !.title = page_title, !.parent = parent_id,
                                   !.body = doc.body, !.file = doc.file, !.fault = fault]
         /\ Returned(create_or_update_page_with_attachment(
                        World(pages, atts, nextId, replaceOk, fault),
                        page_title, parent_id, doc.body, doc.file,
                        final_render(doc.file)))
         /\ runs' = runs + 1
         /\ UNCHANGED hist

\* The next run: the same call after a call that succeeded, on the remote as
\* that call left it.
CallTwoPassAgain ==
    /\ call.fn = "create_or_update_page_with_attachment"
    /\ err = "ok"
    /\ runs < MaxCalls
    /\ \E fault \in Faults(TwoPassRequests, {"500"}) :
         /\ call' = [call EXCEPT !.fault = fault]
         /\ Returned(create_or_update_page_with_attachment(
                        World(pages, atts, nextId, replaceOk, fault),
                        call.title, call.parent, call.body, call.file,
                        final_render(call.file)))
         /\ runs' = runs + 1
         /\ UNCHANGED hist

NextTwoPass == CallTwoPass \/ CallTwoPassAgain

SpecTwoPass == InitAttach /\ [][NextTwoPass]_vars

TwoPassCalled == call.fn = "create_or_update_page_with_attachment"
AttachmentOps == {"upload_replace", "upload", "find_attachment", "delete_attachment"}
UploadOps == {"upload_replace", "upload"}
WriteOps == {"create", "put"}

\* Request j is the write of pass one: it succeeded, carried the placeholder
\* and answered with the page identifier.
PassOneAt(j) ==
    /\ log[j].op \in WriteOps
    /\ log[j].res = "ok"
    /\ log[j].title = call.title
    /\ log[j].body = call.body

\* C9: the two-pass flow runs (1) create-or-update with the placeholder, which
\* yields the page identifier, (2) the upload to that identifier, (3) the
\* render with the file name the upload returned, (4) the update of the same
\* identifier with the final body; no attachment request precedes (1) and the
\* final body is never written before an upload succeeded.
C9_TwoPassOrder ==
    TwoPassCalled =>
        /\ \A i \in 1..Len(log) :
             log[i].op \in AttachmentOps =>
                \E j \in 1..(i - 1) :
                    /\ PassOneAt(j)
                    /\ log[i].op # "delete_attachment" => log[i].id = log[j].out
        /\ \A i \in 1..Len(log) :
             (log[i].op \in WriteOps /\ log[i].body.kind = "final") =>
                /\ log[i].op = "put"
                /\ \E j \in 1..(i - 1) :
                     /\ log[j].op \in UploadOps
                     /\ log[j].res = "ok"
                     /\ log[j].id = log[i].id
                     /\ log[i].body = render_entire_file_as_text(call.file, log[j].file)
        /\ err = "ok" =>
             /\ log[Len(log)].op = "put"
             /\ log[Len(log)].body.kind = "final"
             /\ log[Len(log)].id = ret
             /\ \E j \in 1..Len(log) : PassOneAt(j) /\ log[j].out = ret

\* A complete flow on an existing page, through the fallback.
C9_Witness ==
    /\ TwoPassCalled
    /\ err = "ok"
    /\ Len(log) = TwoPassRequests
    /\ HasPage(pre.pages, ret)
    /\ PageById(pages, ret).body = render_entire_file_as_text(call.file, call.file.name)

\* The call aborted in its attachment step: an upload, lookup or delete failed.
AbortedInAttachment ==
    /\ TwoPassCalled
    /\ err # "ok"
    /\ \E i \in 1..Len(log) : log[i].op \in AttachmentOps /\ log[i].res # "ok"

\* The final body this call renders.
FinalBody == render_entire_file_as_text(call.file, call.file.name)

\* C27: when the flow aborts in the attachment step on a page that existed
\* (pass one was an update), the page holds the placeholder body and its
\* version is one above the version it had before the call; and a page gets
\* the final body from this call only if the call succeeds, in which case the
\* page it returns holds it.
C27_PlaceholderLeftOnAbort ==
    /\ AbortedInAttachment =>
          \A j \in 1..Len(log) :
              (PassOneAt(j) /\ log[j].op = "put") =>
                  /\ HasPage(pre.pages, log[j].out)
                  /\ PageById(pages, log[j].out).body = call.body
                  /\ PageById(pages, log[j].out).version =
                        PageById(pre.pages, log[j].out).version + 1
    /\ TwoPassCalled =>
          /\ \A p \in pages \ pre.pages : p.body = FinalBody => (err = "ok" /\ ret = p.id)
          /\ err = "ok" => PageById(pages, ret).body = FinalBody

\* The second call on a page that holds the final body of the first call: the
\* upload fails and the page is left with the placeholder.
C27_Witness ==
    /\ AbortedInAttachment
    /\ runs = 2
    /\ \E p \in pre.pages : /\ p.body = FinalBody
                            /\ PageById(pages, p.id).body = call.body
                            /\ PageById(pages, p.id).version = p.version + 1

-----------------------------------------------------------------------------
(* Order of the requests of a run *)

TitlePhase(title) == IF title = MasterTitle THEN 1 ELSE IF title = PartialsTitle THEN 2 ELSE 3
TitleOfId(id) == (CHOOSE p \in pages \cup pre.pages : p.id = id).title

\* The part of main() a request belongs to: 1 master page, 2 partials-parent
\* page, 3 child pages, 4 pruning.
Phase(r) ==
    CASE r.op \in {"search_space", "search_ancestor", "create", "put"} -> TitlePhase(r.title)
      [] r.op = "get" -> TitlePhase(TitleOfId(r.id))
      [] r.op \in AttachmentOps -> IF r.file = MasterFileName THEN 1 ELSE 3
      [] OTHER -> 4

IsFinalPut(r) == r.op = "put" /\ r.res = "ok" /\ r.body.kind = "final"
FinalPutTitles(l) == LET f == SelectSeq(l, IsFinalPut) IN [k \in 1..Len(f) |-> f[k].title]
ExpectedTitles == <<MasterTitle>> \o [k \in 1..Len(spec) |-> PageTitle(spec[k])]

\* C10: a run works on the master page (two-pass), then on the partials-parent
\* page below the master page, then on one child page per group below the
\* partials-parent (two-pass each), then prunes; no child page is touched
\* before the partials-parent exists and pruning is the last remote activity.
C10_RunOrder ==
    pc # "idle" =>
        /\ \A i, j \in 1..Len(log) : i < j => Phase(log[i]) <= Phase(log[j])
        /\ \A i \in 1..Len(log) :
             (log[i].op \in {"search_ancestor", "create"} /\ Phase(log[i]) = 2) =>
                \E j \in 1..(i - 1) : /\ IsFinalPut(log[j])
                                      /\ log[j].title = MasterTitle
                                      /\ log[i].id = log[j].out
        /\ \A i \in 1..Len(log) :
             (log[i].op \in {"search_ancestor", "create"} /\ Phase(log[i]) = 3) =>
                \E j \in 1..(i - 1) : /\ log[j].op \in WriteOps
                                      /\ log[j].res = "ok"
                                      /\ log[j].title = PartialsTitle
                                      /\ log[i].id = log[j].out
        /\ \A i \in 1..Len(log) :
             log[i].op = "list_children" =>
                /\ FinalPutTitles(SubSeq(log, 1, i - 1)) = ExpectedTitles
                /\ log[i].id = partials_parent_id
                /\ \A j \in (i + 1)..Len(log) : log[j].op = "delete_page"
        /\ pc = "done" =>
             /\ FinalPutTitles(log) = ExpectedTitles
             /\ \E i \in 1..Len(log) : log[i].op = "list_children"

\* A finished run that created a child page and pruned a stale one.
C10_Witness ==
    /\ pc = "done"
    /\ Len(spec) = 1
    /\ \E i \in 1..Len(log) : log[i].op = "delete_page"
    /\ \E i \in 1..Len(log) : log[i].op = "create" /\ Phase(log[i]) = 3

-----------------------------------------------------------------------------
(* What a run deletes *)

\* The pages this run created or updated for a group of its specification.
WrittenForGroups(l) ==
    {l[j].out : j \in {k \in 1..Len(l) : /\ l[k].op \in WriteOps
                                         /\ l[k].res = "ok"
                                         /\ \E n \in 1..Len(spec) :
                                               l[k].title = PageTitle(spec[n])}}

\* The delete requests a step adds to the log of the run.
NewDeletes == {log'[i].id : i \in {k \in (Len(log) + 1)..Len(log') : log'[k].op = "delete_page"}}

\* C28: a step of a run issues page deletes only if it is the pruning step,
\* and then only for direct children of the partials-parent page, as they are
\* when pruning starts, whose title is not a title of this run; never for the
\* master page, the partials-parent page or a page written for a group of
\* this run.  Every page a run removes was deleted by such a request.
C28_DeletesOnlyStaleChildren ==
    [][/\ \A id \in NewDeletes :
             /\ pc = "prune"
             /\ \E p \in pages : /\ p.id = id
                                 /\ p.parent = partials_parent_id
                                 /\ p.title \notin Range(partial_titles)
             /\ id \notin {master_id, partials_parent_id}
             /\ id \notin WrittenForGroups(log)
        /\ Ids(pages) \ Ids(pages') \subseteq NewDeletes]_vars

\* A finished run that wrote the page of a group and deleted a stale child
\* page: the pages it wrote are all there.
C28_Witness ==
    /\ pc = "done"
    /\ \E i \in 1..Len(log) : log[i].op = "delete_page"
    /\ WrittenForGroups(log) # {}
    /\ WrittenForGroups(log) \cup {master_id, partials_parent_id} \subseteq Ids(pages)

-----------------------------------------------------------------------------
(* The render functions of the per-group loop *)

\* The last successful upload to page id before request i of the run.
LastUploadBefore(i, id) ==
    LET uploads == {j \in 1..(i - 1) :
                       log[j].op \in UploadOps /\ log[j].res = "ok" /\ log[j].id = id}
    IN CHOOSE j \in uploads : \A k \in uploads : k <= j

\* C29: every final body the loop over the groups writes to the page of a
\* group is rendered from the partial document of that group and carries the
\* attachment name that the upload to that same page returned, the name of
\* that group's file.
C29_RenderUsesOwnIteration ==
    pc # "idle" =>
        \A i \in 1..Len(log) :
            (IsFinalPut(log[i]) /\ Phase(log[i]) = 3) =>
                \E n \in 1..Len(spec) :
                    /\ log[i].title = PageTitle(spec[n])
                    /\ log[i].body.text = PartialFile(spec[n]).text
                    /\ \E j \in 1..(i - 1) :
                          log[j].op \in UploadOps /\ log[j].res = "ok" /\ log[j].id = log[i].id
                    /\ log[i].body.att = log[LastUploadBefore(i, log[i].id)].file
                    /\ log[i].body.att = PartialFileName(spec[n])
                    /\ log[i].body = render_entire_file_as_text(PartialFile(spec[n]),
                                                                PartialFileName(spec[n]))

\* A finished run over two groups: each of the two child pages holds the body
\* rendered from its own document.
C29_Witness ==
    /\ pc = "done"
    /\ Len(spec) = 2
    /\ \A n \in 1..2 :
          \E p \in pages : /\ p.title = PageTitle(spec[n])
                           /\ p.body.kind = "final"
                           /\ p.body.text = PartialFile(spec[n]).text
                           /\ p.body.att = PartialFileName(spec[n])

-----------------------------------------------------------------------------
(* main() against a remote that fails requests *)

\* The runs in which the remote may fail a request or another writer may
\* interfere: the first FaultyRuns runs of a behaviour.
FaultyRuns == 1

FaultKinds == {"500", OtherWriter}

\* What can happen to the next n requests of the run: nothing, or one of them
\* is failed or is preceded by another writer's edit.
StepFaults(n) ==
    {NoFault} \cup
    (IF runs > FaultyRuns THEN {}
     ELSE {[at |-> Len(log) + k, kind |-> e] : k \in 1..n, e \in FaultKinds})

\* Page trees in which the master page, if there is one, is a root and the
\* partials-parent page, if there is one, is a child of the master page; the
\* group pages are anywhere.
OwnedForests ==
    {ps \in InitForests :
        \A p \in ps : /\ p.title = MasterTitle => p.parent = None
                      /\ p.title = PartialsTitle =>
                            \E m \in ps : m.title = MasterTitle /\ p.parent = m.id}

InitFault ==
    /\ pages \in OwnedForests
    /\ \E seeded \in BOOLEAN : atts = IF seeded THEN SeededAtts(pages) ELSE {}
    /\ nextId = FirstFreeId
    /\ replaceOk \in BOOLEAN
    /\ InitLocals

\* The script is started again on the same master file.
Rerun ==
    /\ pc \in {"done", "failed"}
    /\ runs < MaxRuns
    /\ spec' = spec
    /\ partials' = spec
    /\ runs' = runs + 1
    /\ pc' = "master"
    /\ pre' = Snapshot
    /\ log' = <<>>
    /\ err' = "ok"
    /\ ret' = None
    /\ master_id' = None
    /\ partials_parent_id' = None
    /\ partial_titles' = <<>>
    /\ UNCHANGED <<remoteVars, call, hist>>

NextFault ==
    \/ pc = "idle" /\ StartRun
    \/ Rerun
    \/ \E fault \in StepFaults(TwoPassRequests) : ProcessMaster(fault)
    \/ \E fault \in StepFaults(3) : ProcessPartialsParent(fault)
    \/ \E fault \in StepFaults(TwoPassRequests) : ProcessPartial(fault)
    \/ \E fault \in StepFaults(NTitles - 1) : Prune(fault)

SpecFault == InitFault /\ [][NextFault]_vars

PruneOps == {"list_children", "delete_page"}

\* Request j failed and the attachment fallback took over: a replace-mode
\* upload rejected as a duplicate, followed by the lookup on the same page.
FallbackAt(l, j) ==
    /\ l[j].op = "upload_replace"
    /\ l[j].res = DupMessage
    /\ j < Len(l)
    /\ l[j + 1].op = "find_attachment"
    /\ l[j + 1].id = l[j].id
    /\ l[j + 1].file = l[j].file

\* C11: pruning runs only if every create, update and attachment step before
\* it in the run succeeded: a run that fails in one of those steps lists no
\* child page and deletes no page, and a listing or delete is preceded by the
\* successful partials-parent write and the final write of every page.
C11_PruneOnlyAfterSuccess ==
    pc # "idle" =>
        /\ \A j \in 1..Len(log) :
             (log[j].op \notin PruneOps /\ log[j].res # "ok" /\ ~FallbackAt(log, j)) =>
                \A i \in 1..Len(log) : log[i].op \notin PruneOps
        /\ \A i \in 1..Len(log) :
             log[i].op \in PruneOps =>
                /\ FinalPutTitles(SubSeq(log, 1, i - 1)) = ExpectedTitles
                /\ \E j \in 1..(i - 1) : /\ log[j].op \in WriteOps
                                          /\ log[j].res = "ok"
                                          /\ log[j].title = PartialsTitle

\* A run that failed while it worked on a child page, with a stale page
\* waiting below the partials-parent.
C11_Witness ==
    /\ pc = "failed"
    /\ Len(spec) = 1
    /\ partials_parent_id # None
    /\ Phase(log[Len(log)]) = 3
    /\ \E p \in pages : p.parent = partials_parent_id /\ p.title # PageTitle(spec[1])

MaxOf(S) == CHOOSE x \in S : \A y \in S : y <= x

\* The successful writes (create, update) of page id in a log, and the body
\* the last of them stored.
PageWrites(l, id) ==
    {i \in 1..Len(l) : l[i].op \in WriteOps /\ l[i].res = "ok" /\ l[i].out = id}
LastBody(l, id) == l[MaxOf(PageWrites(l, id))].body

\* The text of the file the run uploads under a file name.
DocText(filename) ==
    IF filename = MasterFileName THEN MasterFile(Range(spec)).text
    ELSE PartialFile(CHOOSE g \in GroupNames : PartialFileName(g) = filename).text

\* The run stopped at the request that failed, and what every request before
\* it completed is in the remote: created and updated pages with the title
\* sent and the body last written (or the body another writer saved since),
\* uploaded attachments with the text uploaded, deleted attachments and pages gone.
AsCommitted ==
    pc = "failed" =>
        /\ log # <<>>
        /\ log[Len(log)].res # "ok"
        /\ err = log[Len(log)].res
        /\ \A i \in 1..(Len(log) - 1) : log[i].res = "ok" \/ FallbackAt(log, i)
        /\ \A i \in 1..Len(log) :
             log[i].res = "ok" =>
                CASE log[i].op = "create" ->
                        \E p \in pages : /\ p.id = log[i].out
                                         /\ p.title = log[i].title
                                         /\ p.parent = log[i].id
                                         /\ p.body \in {LastBody(log, p.id), EditedBody}
                  [] log[i].op = "put" ->
                        \E p \in pages : /\ p.id = log[i].id
                                         /\ p.title = log[i].title
                                         /\ p.version >= log[i].version
                                         /\ p.body \in {LastBody(log, p.id), EditedBody}
                  [] log[i].op \in UploadOps ->
                        \E a \in atts : /\ a.page = log[i].id
                                        /\ a.filename = log[i].file
                                        /\ a.content = DocText(log[i].file)
                  [] log[i].op = "delete_attachment" ->
                        ~\E a \in atts : a.id = log[i].id
                  [] log[i].op = "delete_page" -> ~HasPage(pages, log[i].id)
                  [] OTHER -> TRUE

\* C12: when a remote step of a run fails, the run issues no further request
\* and rolls nothing back: every page creation, page update, attachment
\* upload and attachment delete completed before the failure stays in the
\* remote as committed, and the failed run changes the remote no more.
C12_FailFastNoRollback ==
    /\ []AsCommitted
    /\ [][pc = "failed" => UNCHANGED <<pages, atts, nextId>>]_vars

\* A run that failed after it created a page, deleted an old attachment in the
\* fallback and uploaded the new one.
C12_Witness ==
    /\ pc = "failed"
    /\ \E i \in 1..Len(log) : log[i].op = "create" /\ log[i].res = "ok"
    /\ \E i \in 1..Len(log) : log[i].op = "delete_attachment" /\ log[i].res = "ok"
    /\ \E i \in 1..Len(log) : log[i].op = "upload" /\ log[i].res = "ok"

\* The same request sent again: same operation, target, title, file and body.
SameRequest(a, b) ==
    /\ a.op = b.op
    /\ a.id = b.id
    /\ a.title = b.title
    /\ a.file = b.file
    /\ a.body = b.body

\* The requests of a log that carry file name f and operation op: those of the
\* one attach call a run makes for that file.
AttachRequests(l, f, op) == {i \in 1..Len(l) : l[i].op = op /\ l[i].file = f}

\* C13: within a run no failed request is issued again, except that the
\* attachment fallback follows a duplicate-filename rejection; each attach call
\* issues at most one replace-mode upload, one plain upload, one lookup and
\* one delete, and any other failing request is the last request of the run.
C13_NoRetry ==
    pc # "idle" =>
        /\ \A i \in 1..Len(log) :
             log[i].res # "ok" =>
                \/ i = Len(log) /\ pc = "failed" /\ err = log[i].res
                \/ FallbackAt(log, i)
        /\ \A i, j \in 1..Len(log) :
             (i < j /\ log[i].res # "ok") => ~SameRequest(log[i], log[j])
        /\ \A f \in {MasterFileName} \cup {PartialFileName(g) : g \in GroupNames} :
             \A op \in AttachmentOps : Cardinality(AttachRequests(log, f, op)) <= 1
        /\ pc \in {"done", "failed"} => (pc = "done" <=> err = "ok")

\* A run that went through the fallback for one page and failed on a later request.
C13_Witness ==
    /\ pc = "failed"
    /\ \E i \in 1..(Len(log) - 2) : FallbackAt(log, i) /\ log[i + 2].res = "ok"
    /\ log[Len(log)].op = "upload_replace"
    /\ log[Len(log)].res = "500"

\* Every successful PUT directly follows the GET of the same page and carries
\* the version that GET read, plus one.
PutFollowsRead ==
    \A i \in 1..Len(log) :
        (log[i].op = "put" /\ log[i].res = "ok") =>
            /\ i > 1
            /\ log[i - 1].op = "get"
            /\ log[i - 1].res = "ok"
            /\ log[i - 1].id = log[i].id
            /\ log[i].version = log[i - 1].version + 1

\* The successful updates of page id among the requests a step added to the log.
NewPuts(id) ==
    IF Len(log') < Len(log) THEN {}
    ELSE {i \in (Len(log) + 1)..Len(log') :
            log'[i].op = "put" /\ log'[i].res = "ok" /\ log'[i].id = id}

\* C14: every successful update_page submits the version it read from the
\* remote plus one, and over every step of the system the version of a page
\* that stays in the wiki rises by at least one per successful update and
\* never falls.
C14_VersionIncreases ==
    /\ []PutFollowsRead
    /\ [][\A p \in pages :
             HasPage(pages', p.id) =>
                PageById(pages', p.id).version >= p.version + Cardinality(NewPuts(p.id))]_vars

\* A finished run that updated one page twice: its version is two above the
\* one it had when the run began.
C14_Witness ==
    /\ pc = "done"
    /\ \E p \in pre.pages :
         /\ HasPage(pages, p.id)
         /\ Cardinality({i \in 1..Len(log) : log[i].op = "put" /\ log[i].res = "ok"
                                             /\ log[i].id = p.id}) = 2
         /\ PageById(pages, p.id).version = p.version + 2

\* C15: when the version of the page changes between the read and the update
\* request of update_page, the remote rejects the update (409), update_page
\* raises without reading the version again or repeating the update, the page
\* keeps the body and version the other writer saved, and the run is aborted.
C15_ConflictIsFatal ==
    \A i \in 1..Len(log) :
        (log[i].op = "put" /\ log[i].res = "409") =>
            /\ i = Len(log)
            /\ pc = "failed"
            /\ err = "409"
            /\ i > 1
            /\ log[i - 1].op = "get" /\ log[i - 1].id = log[i].id
            /\ Cardinality({j \in 1..Len(log) : log[j].op = "put" /\ log[j].id = log[i].id
                                                /\ log[j].body = log[i].body}) = 1
            /\ \E p \in pages : /\ p.id = log[i].id
                                 /\ p.body = EditedBody
                                 /\ p.version = log[i - 1].version + 1

\* The final update of a child page met another writer's edit.
C15_Witness ==
    /\ pc = "failed"
    /\ err = "409"
    /\ log[Len(log)].body.kind = "final"
    /\ Phase(log[Len(log)]) = 3

-----------------------------------------------------------------------------
(* 2) Splitting logic (/api/v3 path segment) *)

\* Strings are sequences of characters.
ApiPrefix == <<"/", "a", "p", "i", "/", "v", "3">>

\* The method names the loop accepts; every other key of a path item is skipped.
HttpMethods == {"get", "put", "post", "delete", "options", "head", "patch", "trace"}

\* str.startswith
startswith(s, p) == Len(s) >= Len(p) /\ SubSeq(s, 1, Len(p)) = p

RECURSIVE lstrip(_, _)
\* str.lstrip(c)
lstrip(s, c) == IF s # <<>> /\ Head(s) = c THEN lstrip(Tail(s), c) ELSE s

RECURSIVE first_segment(_)
\* s.split("/")[0]
first_segment(s) ==
    IF s = <<>> \/ Head(s) = "/" THEN <<>> ELSE <<Head(s)>> \o first_segment(Tail(s))

\* partial_docs: the groups in the order of their creation and, per group,
\* its document: "info" and "paths" (path key -> method -> operation).
NoPartialDocs == [groups |-> <<>>, docs |-> <<>>]

\* base_template: "info" is a copy of the master's, "paths" is empty.
base_template(master_doc) == [info |-> master_doc.info, paths |-> <<>>]

\* The loop with the partial document created as soon as the group is known,
\* before the methods are looked at.
CopyOperationsEager(template, partial_docs, group_name, path_key, path_item) ==
    LET accepted == DOMAIN path_item \cap HttpMethods
        created == IF group_name \in DOMAIN partial_docs.docs THEN partial_docs
                   ELSE [groups |-> Append(partial_docs.groups, group_name),
                         docs |-> partial_docs.docs @@ (group_name :> template)]
    IN IF accepted = {} THEN created
       ELSE [created EXCEPT !.docs[group_name].paths =
                                (path_key :> [m \in accepted |-> path_item[m]]) @@ @]

\* The body of the loop over the methods of one path item: the partial document
\* of the group is created from base_template when the first accepted method
\* is met, and every accepted method gets a copy of its operation object.
CopyOperations(template, partial_docs, group_name, path_key, path_item) ==
    LET accepted == DOMAIN path_item \cap HttpMethods
        created == IF group_name \in DOMAIN partial_docs.docs THEN partial_docs
                   ELSE [groups |-> Append(partial_docs.groups, group_name),
                         docs |-> partial_docs.docs @@ (group_name :> template)]
    IN IF accepted = {} THEN partial_docs
       ELSE [created EXCEPT !.docs[group_name].paths =
                                (path_key :> [m \in accepted |-> path_item[m]]) @@ @]

\* split_openapi_by_path_segment without the lstrip("/") of the remainder.
SplitPathNoStrip(template, partial_docs, path_key, path_item) ==
    LET remainder == SubSeq(path_key, Len(ApiPrefix) + 1, Len(path_key))
    IN IF ~startswith(path_key, ApiPrefix) THEN partial_docs
       ELSE IF remainder = <<>> THEN partial_docs
       ELSE CopyOperations(template, partial_docs, first_segment(remainder), path_key,
                           path_item)

\* split_openapi_by_path_segment without the test for an empty remainder.
SplitPathKeepEmpty(template, partial_docs, path_key, path_item) ==
    LET remainder == lstrip(SubSeq(path_key, Len(ApiPrefix) + 1, Len(path_key)), "/")
    IN IF ~startswith(path_key, ApiPrefix) THEN partial_docs
       ELSE CopyOperations(template, partial_docs, first_segment(remainder), path_key,
                           path_item)

\* One iteration of the loop over master_doc["paths"].
SplitPath(template, partial_docs, path_key, path_item) ==
    LET remainder == lstrip(SubSeq(path_key, Len(ApiPrefix) + 1, Len(path_key)), "/")
    IN IF ~startswith(path_key, ApiPrefix) THEN partial_docs
       ELSE IF remainder = <<>> THEN partial_docs
       ELSE CopyOperations(template, partial_docs, first_segment(remainder), path_key,
                           path_item)

RECURSIVE SplitLoop(_, _, _, _)
SplitLoop(template, partial_docs, paths, i) ==
    IF i > Len(paths) THEN partial_docs
    ELSE SplitLoop(template,
                   SplitPath(template, partial_docs, paths[i].key, paths[i].item),
                   paths, i + 1)

\* str.lower() and str.endswith
lower(s) == [i \in DOMAIN s |-> Lower(s[i])]
endswith(s, p) == Len(s) >= Len(p) /\ SubSeq(s, Len(s) - Len(p) + 1, Len(s)) = p

\* The loader chosen for the master file: json.load for a path that ends with
\* ".json" in any case, yaml.safe_load for every other path.
MasterFormat(master_path) ==
    IF endswith(lower(master_path), <<".", "j", "s", "o", "n">>) THEN "json" ELSE "yaml"

\* A partial document written in the format of the master document.
WritePartialSameFormat(master_path, group) ==
    [name |-> group \o <<IF MasterFormat(master_path) = "json" THEN ".openapi.json"
                          ELSE ".openapi.yaml">>,
     format |-> MasterFormat(master_path)]

\* The file written for a group: out_path and the serializer, yaml.safe_dump.
WritePartial(master_path, group) ==
    [name |-> PartialFileName(group), format |-> "yaml"]

\* Returns the groups in dict order, the document of each group, the file
\* written for it and result_files, { group: "<group>.openapi.yaml" }.
split_openapi_by_path_segment(master_file) ==
    LET master_doc == master_file.text
        partial_docs == SplitLoop(base_template(master_doc), NoPartialDocs,
                                  master_doc.paths, 1)
        written == [g \in DOMAIN partial_docs.docs |-> WritePartial(master_file.name, g)]
    IN [groups |-> partial_docs.groups,
        docs |-> partial_docs.docs,
        written |-> written,
        result_files |-> [g \in DOMAIN written |-> written[g].name]]

\* Master documents: at most MaxPaths paths with distinct keys, each with some
\* of the keys a path item can have.
MaxPaths == 2

PathTails == {<<>>, <<"/">>, <<"/", "/">>, <<"/", "w">>, <<"/", "w", "/", "x">>,
              <<"/", "g">>, <<"/", "/", "g">>, <<"w">>, <<"/", "W">>}
PathKeys == {ApiPrefix \o t : t \in PathTails} \cup
            {<<"/", "w">>, <<"/", "a", "p", "i", "/", "v", "2", "/", "w">>,
             <<"a", "p", "i", "/", "v", "3", "/", "w">>}
\* A path item: key -> operation object (or the value of a key that is no
\* method).
PathItems == {<<>>, "get" :> "a", "get" :> "b", ("get" :> "a") @@ ("post" :> "p"),
              "parameters" :> "q", ("post" :> "p") @@ ("parameters" :> "q")}
Infos == {"info 1", "info 2"}

\* args.master_file: paths of a JSON and of a YAML master document.
MasterPaths == {<<"m", ".", "j", "s", "o", "n">>, <<"m", ".", "J", "S", "O", "N">>,
                <<"m", ".", "y", "a", "m", "l">>}

MasterDocs ==
    {[info |-> info, paths |-> d] :
        info \in Infos,
        d \in {e \in UNION {[1..n -> [key : PathKeys, item : PathItems]] : n \in 0..MaxPaths} :
                  \A i, j \in 1..Len(e) : i # j => e[i].key # e[j].key}}

InitSplit ==
    /\ pages = {}
    /\ atts = {}
    /\ nextId = FirstFreeId
    /\ replaceOk = TRUE
    /\ log = <<>>
    /\ err = "ok"
    /\ ret = None
    /\ \E master_path \in MasterPaths, master_doc \in MasterDocs :
         call = [NoCall EXCEPT !.file = File(master_path, master_doc)]
    /\ pre = NoSnapshot
    /\ pc = "idle"
    /\ runs = 0
    /\ partials = <<>>
    /\ spec = <<>>
    /\ master_id = None
    /\ partials_parent_id = None
    /\ partial_titles = <<>>
    /\ hist = <<>>

\* partials = split_openapi_by_path_segment(args.master_file, args.output_dir)
CallSplit ==
    /\ call.fn = "none"
    /\ call' = [call EXCEPT !.fn = "split_openapi_by_path_segment"]
    /\ ret' = split_openapi_by_path_segment(call.file)
    /\ UNCHANGED <<remoteVars, log, err, pre, mainVars>>

NextSplit == CallSplit

SpecSplit == InitSplit /\ [][NextSplit]_vars

SplitReturned == call.fn = "split_openapi_by_path_segment"
MasterEntries == {call.file.text.paths[i] : i \in 1..Len(call.file.text.paths)}

\* The partial documents (groups) in which a path key appears.
PartialsWith(path_key) == {g \in DOMAIN ret.docs : path_key \in DOMAIN ret.docs[g].paths}

\* The path key without the prefix and the slashes that follow it.
AfterPrefix(path_key) == lstrip(SubSeq(path_key, Len(ApiPrefix) + 1, Len(path_key)), "/")

\* C16 as stated: every path that matches the prefix and is not exactly the
\* prefix (nothing but slashes after it) appears in exactly one partial
\* document, the one of the group equal to its first segment after the prefix;
\* every path that does not match the prefix appears in no partial.
C16_EveryPrefixedPathInOnePartial ==
    SplitReturned =>
        \A e \in MasterEntries :
            IF startswith(e.key, ApiPrefix) /\ AfterPrefix(e.key) # <<>>
            THEN PartialsWith(e.key) = {first_segment(AfterPrefix(e.key))}
            ELSE PartialsWith(e.key) = {}

\* C16 amended: a path that starts with the prefix, has a non-empty remainder
\* after the prefix and its leading slashes, and carries at least one accepted
\* HTTP method appears in exactly one partial document, the one of the group
\* equal to the first segment of that remainder, with exactly its accepted
\* methods; every other path appears in no partial.
C16_PathWithOperationsInOnePartial ==
    SplitReturned =>
        \A e \in MasterEntries :
            IF /\ startswith(e.key, ApiPrefix)
               /\ AfterPrefix(e.key) # <<>>
               /\ DOMAIN e.item \cap HttpMethods # {}
            THEN /\ PartialsWith(e.key) = {first_segment(AfterPrefix(e.key))}
                 /\ DOMAIN ret.docs[first_segment(AfterPrefix(e.key))].paths[e.key] =
                        DOMAIN e.item \cap HttpMethods
            ELSE PartialsWith(e.key) = {}

\* A document with a grouped path and a path outside the prefix that has operations.
C16_Witness ==
    /\ SplitReturned
    /\ \E e \in MasterEntries : PartialsWith(e.key) = {<<"g">>}
    /\ \E e \in MasterEntries : ~startswith(e.key, ApiPrefix) /\ "get" \in DOMAIN e.item

\* C17: a path exactly equal to the prefix, also one whose remainder is only
\* slashes, produces no group and appears in no partial document, and the
\* other paths are split all the same.
C17_BarePrefixDropped ==
    SplitReturned =>
        /\ <<>> \notin DOMAIN ret.docs
        /\ \A e \in MasterEntries :
             (startswith(e.key, ApiPrefix) /\ AfterPrefix(e.key) = <<>>) =>
                /\ PartialsWith(e.key) = {}
                /\ ret = split_openapi_by_path_segment(
                            File(call.file.name,
                                 [call.file.text EXCEPT
                                     !.paths = SelectSeq(@, LAMBDA x : x # e)]))

\* The bare prefix, with an operation, next to a path that is grouped.
C17_Witness ==
    /\ SplitReturned
    /\ \E e \in MasterEntries : e.key = ApiPrefix /\ "get" \in DOMAIN e.item
    /\ ret.groups # <<>>

\* The extension a partial file has when it follows the format of the master
\* document.
ExtensionOf(format) == IF format = "json" THEN ".openapi.json" ELSE ".openapi.yaml"

\* C22 as stated: for every group the partial document is written to
\* <group>.<ext>, <ext> and the serialization being those of the format of
\* the master document that was read.
C22_ExtensionFollowsMaster ==
    SplitReturned =>
        \A g \in DOMAIN ret.written :
            /\ ret.written[g].format = MasterFormat(call.file.name)
            /\ ret.written[g].name = g \o <<ExtensionOf(MasterFormat(call.file.name))>>
            /\ ret.result_files[g] = ret.written[g].name

\* C22 amended: for every group the partial document is written to
\* <group>.openapi.yaml, serialized as YAML, whatever the format of the master
\* document; that path is the one returned for the group.
C22_AlwaysYaml ==
    SplitReturned =>
        /\ DOMAIN ret.written = DOMAIN ret.docs
        /\ \A g \in DOMAIN ret.written :
            /\ ret.written[g].format = "yaml"
            /\ ret.written[g].name = g \o <<".openapi.yaml">>
            /\ ret.result_files[g] = ret.written[g].name

\* A JSON master document that gives two groups.
C22_Witness ==
    /\ SplitReturned
    /\ MasterFormat(call.file.name) = "json"
    /\ Len(ret.groups) = 2

\* The group of a path that matches the prefix and has a remainder.
Grouped(e) == startswith(e.key, ApiPrefix) /\ AfterPrefix(e.key) # <<>>
GroupOf(e) == first_segment(AfterPrefix(e.key))

\* The operations of the master document that are copied: path, method and
\* operation object, with the group of the path.
CopiedOperations ==
    UNION {{[group |-> GroupOf(e), key |-> e.key, method |-> m, operation |-> e.item[m]] :
               m \in DOMAIN e.item \cap HttpMethods} :
           e \in {x \in MasterEntries : Grouped(x)}}

\* The operations found in the partial documents.
PartialOperations ==
    UNION {UNION {{[group |-> g, key |-> k, method |-> m,
                    operation |-> ret.docs[g].paths[k][m]] :
                      m \in DOMAIN ret.docs[g].paths[k]} :
                  k \in DOMAIN ret.docs[g].paths} :
           g \in DOMAIN ret.docs}

\* C24: the partial documents hold exactly the operations of the paths that
\* have a group (path and method as in the master document, operation equal
\* to the master's), each in the partial of the group of its path; every
\* partial document has the master's "info"; a group has a partial document,
\* and one returned file, exactly when an operation was copied for it, and no
\* two groups share a file.
C24_LazyPartialPerGroup ==
    SplitReturned =>
        /\ PartialOperations = CopiedOperations
        /\ \A g \in DOMAIN ret.docs : /\ ret.docs[g].info = call.file.text.info
                                      /\ ret.docs[g].paths # <<>>
                                      /\ \A k \in DOMAIN ret.docs[g].paths :
                                            ret.docs[g].paths[k] # <<>>
        /\ DOMAIN ret.docs = {o.group : o \in CopiedOperations}
        /\ DOMAIN ret.result_files = DOMAIN ret.docs
        /\ Range(ret.groups) = DOMAIN ret.docs
        /\ Len(ret.groups) = Cardinality(DOMAIN ret.docs)
        /\ \A g, h \in DOMAIN ret.result_files :
              ret.result_files[g] = ret.result_files[h] => g = h

\* A path of group w without any method next to a path of group g with two.
C24_Witness ==
    /\ SplitReturned
    /\ \E e \in MasterEntries : /\ Grouped(e)
                                /\ GroupOf(e) = <<"w">>
                                /\ DOMAIN e.item = {"parameters"}
    /\ \E e \in MasterEntries : /\ Grouped(e)
                                /\ GroupOf(e) = <<"g">>
                                /\ DOMAIN e.item = {"get", "post"}
    /\ DOMAIN ret.docs = {<<"g">>}

\* partial_titles as the loop of main() over partials.items() builds it.
PartialTitles(groups) == [i \in 1..Len(groups) |-> PageTitle(groups[i])]

\* C26: the groups the partitioner returns have pairwise distinct page titles,
\* and valid_titles, the set of partial_titles, has one element per group.
C26_DistinctGroupsDistinctTitles ==
    SplitReturned =>
        /\ \A g, h \in DOMAIN ret.result_files : g # h => PageTitle(g) # PageTitle(h)
        /\ Cardinality(Range(PartialTitles(ret.groups))) = Len(ret.groups)

-----------------------------------------------------------------------------
(* A group removed from the specification between two runs *)

Widgets == <<"w">>
Gadgets == <<"g">>

\* The last two runs succeeded, one right after the other: the first on a
\* specification with both groups, the second with the gadgets paths removed.
GadgetsRemoved ==
    /\ pc = "done"
    /\ Len(hist) >= 2
    /\ hist[Len(hist)].run = hist[Len(hist) - 1].run + 1
    /\ Range(hist[Len(hist) - 1].spec) = {Widgets, Gadgets}
    /\ hist[Len(hist)].spec = <<Widgets>>

TitledPages(ps, title) == {p \in ps : p.title = title}

\* C18: after a successful run on groups widgets and gadgets and a second
\* successful run with the gadgets paths removed, the "Gadgets Endpoints"
\* page has been deleted and the "Widgets Endpoints" page is a child of the
\* partials-parent with the identifier it had after the first run.
C18_RemovedGroupPruned ==
    GadgetsRemoved =>
        LET first == hist[Len(hist) - 1]
            second == hist[Len(hist)]
        IN /\ TitledPages(second.pages, PageTitle(Gadgets)) = {}
           /\ \E p \in TitledPages(second.pages, PageTitle(Widgets)) :
                /\ p.parent = partials_parent_id
                /\ p.id \in Ids(TitledPages(first.pages, PageTitle(Widgets)))

-----------------------------------------------------------------------------
(* A run after an aborted run *)

\* The run that just finished succeeded and the run before it, on the same
\* specification, was aborted (it left no record of a successful end).
DoneAfterAbort ==
    /\ pc = "done"
    /\ runs >= 2
    /\ \A k \in 1..Len(hist) : hist[k].run # runs - 1

\* A page with this title and parent, carrying the final body rendered from
\* the file and the file as its attachment.
Synced(title, parent, file) ==
    \E p \in pages :
        /\ p.title = title
        /\ p.parent = parent
        /\ p.body = render_entire_file_as_text(file, file.name)
        /\ \E a \in atts : a.page = p.id /\ a.filename = file.name /\ a.content = file.text

\* The full desired state for the specification of the run.
DesiredState ==
    /\ Synced(MasterTitle, None, MasterFile(Range(spec)))
    /\ \E p \in pages : /\ p.id = partials_parent_id
                         /\ p.title = PartialsTitle
                         /\ p.parent = master_id
                         /\ p.body = PartialsParentBody
    /\ \A g \in Range(spec) : Synced(PageTitle(g), partials_parent_id, PartialFile(g))
    /\ \A p \in ChildrenOf(pages, partials_parent_id) :
         p.title \in {PageTitle(g) : g \in Range(spec)}

\* C19: when a run aborts at any step and the next run on the same
\* specification succeeds, the wiki is then in the full desired state: master
\* page, partials-parent below it, one child page per group with its final
\* body and its attachment, and no stale child page.
C19_ConvergesAfterAbort == DoneAfterAbort => DesiredState

-----------------------------------------------------------------------------
(* postmand2confluence/openapi2confluence.py: main() *)

\* build_openapi_macro_for_attachment(attachment_name)
build_openapi_macro_for_attachment(attachment_name) == Body("macro", NoText, attachment_name)

\* upload_attachment: a plain POST, then resp.raise_for_status().
upload_attachment(w, page_id, file) ==
    LET resp == post_attachment(w, page_id, file, FALSE)
    IN IF resp.w.err # "ok" THEN [w |-> resp.w, v |-> None]
       ELSE IF resp.v # "ok" THEN raise_for_status(resp)
       ELSE [w |-> resp.w, v |-> file.name]

\* Page, attachment, macro body: the sequence main() runs for the master page
\* and for every child page; page is the result of the create-or-update call.
AttachAndEmbed(page, title, file) ==
    LET page_id == page.v
        up == upload_attachment(page.w, page_id, file)
        macro_body == build_openapi_macro_for_attachment(up.v)
    IN IF page.w.err # "ok" THEN page
       ELSE IF up.w.err # "ok" THEN up
       ELSE update_page(up.w, page_id, title, macro_body)

\* The record of a run that reached "Done!".
RunRecord(x) ==
    [run |-> runs, spec |-> spec, pages |-> x.w.pages, atts |-> x.w.atts, log |-> x.w.log]

\* 2) and 2a) the master page, its attachment and its macro body
OldProcessMaster ==
    /\ pc = "master"
    /\ LET page == create_or_update_page(CurrentWorld(NoFault), MasterTitle, None,
                                         MasterPlaceholder)
           x == AttachAndEmbed(page, MasterTitle, MasterFile(Range(spec)))
       IN /\ Commit(x)
          /\ master_id' = page.v
          /\ pc' = IF x.w.err = "ok" THEN "parent" ELSE "failed"
    /\ UNCHANGED <<ret, call, pre, runs, partials, spec, partials_parent_id,
                   partial_titles, hist>>

\* 3) the partials parent page, a child of the master page
OldProcessPartialsParent ==
    /\ pc = "parent"
    /\ LET x == create_or_update_subpage(CurrentWorld(NoFault), master_id, PartialsTitle,
                                         PartialsParentBody)
       IN /\ Commit(x)
          /\ partials_parent_id' = x.v
          /\ pc' = IF x.w.err # "ok" THEN "failed"
                   ELSE IF partials = <<>> THEN "done" ELSE "children"
          /\ hist' = IF x.w.err = "ok" /\ partials = <<>> THEN Append(hist, RunRecord(x))
                     ELSE hist
    /\ UNCHANGED <<ret, call, pre, runs, partials, spec, master_id, partial_titles>>

\* 4) one iteration of the loop over the partials; after the last one main()
\* prints "Done!": there is no pruning step.
OldProcessPartial ==
    /\ pc = "children"
    /\ partials # <<>>
    /\ LET group_name == Head(partials)
           page_title == PageTitle(group_name)
           page == create_or_update_subpage(CurrentWorld(NoFault), partials_parent_id,
                                            page_title, PartialPlaceholder)
           x == AttachAndEmbed(page, page_title, PartialFile(group_name))
       IN /\ Commit(x)
          /\ partials' = Tail(partials)
          /\ pc' = IF x.w.err # "ok" THEN "failed"
                   ELSE IF Tail(partials) = <<>> THEN "done" ELSE "children"
          /\ hist' = IF x.w.err = "ok" /\ Tail(partials) = <<>>
                     THEN Append(hist, RunRecord(x)) ELSE hist
    /\ UNCHANGED <<ret, call, pre, runs, spec, master_id, partials_parent_id,
                   partial_titles>>

NextOld ==
    \/ StartRun
    \/ OldProcessMaster
    \/ OldProcessPartialsParent
    \/ OldProcessPartial

SpecOld == Init /\ [][NextOld]_vars

\* The run before the current one reached "Done!" on a specification that had
\* group g, the current run was started without it and has ended.
RerunWithout(g) ==
    /\ pc \in {"done", "failed"}
    /\ g \notin Range(spec)
    /\ \E k \in 1..Len(hist) : hist[k].run = runs - 1 /\ g \in Range(hist[k].spec)

\* C20: in the postmand2confluence variant, re-running the sync after a group
\* was removed from the specification leaves no child page of the removed
\* group under the partials parent page.
C20_OldVariantLeavesNoOrphan ==
    \A g \in GroupNames :
        RerunWithout(g) =>
            ~\E p \in pages, pp \in pages : /\ pp.title = PartialsTitle
                                            /\ p.title = PageTitle(g)
                                            /\ p.parent = pp.id

-----------------------------------------------------------------------------
(* postman2confluence/scripts/postman2openapi.py: remove_excluded_paths *)

\* str.strip(): blanks removed at both ends.
RECURSIVE strip(_)
strip(s) ==
    IF s = <<>> THEN s
    ELSE IF Head(s) = " " THEN strip(Tail(s))
    ELSE IF s[Len(s)] = " " THEN strip(SubSeq(s, 1, Len(s) - 1))
    ELSE s

\* should_exclude(path, excludes): the loop returns True at the first entry
\* that equals the path or that, followed by "/", starts it.
should_exclude(path, excludes) ==
    \E i \in 1..Len(excludes) :
        LET ex == strip(excludes[i])
        IN path = ex \/ startswith(path, ex \o <<"/">>)

\* paths_dict after the call (the dict is cleared and refilled in place, in
\* the order it had).
remove_excluded_paths(paths_dict, exclude_list) ==
    SelectSeq(paths_dict, LAMBDA e : ~should_exclude(e.key, exclude_list))

\* The entries the docstring gives as its examples.
ApiV1 == <<"/", "a", "p", "i", "/", "v", "1">>
Alerts == ApiV1 \o <<"/", "a", "l", "e", "r", "t", "s">>
Health == <<"/", "h", "e", "a", "l", "t", "h">>

ExcludePathKeys ==
    {ApiV1, ApiV1 \o <<"/">>, Alerts, Alerts \o <<"/", "{", "i", "d", "}">>,
     Alerts \o <<"2">>, ApiV1 \o <<"0">>, ApiV1 \o <<"/", "u", "s", "e", "r", "s">>,
     Health, Health \o <<"/", "l", "i", "v", "e">>}
ExcludeEntries == {ApiV1, <<" ">> \o ApiV1 \o <<" ">>, Alerts}
MaxExcludes == 2

PathsDicts ==
    {d \in UNION {[1..n -> [key : ExcludePathKeys, item : {{"get"}, {"get", "post"}}]] :
                     n \in 0..MaxPaths} :
        \A i, j \in 1..Len(d) : i # j => d[i].key # d[j].key}
ExcludeLists == UNION {[1..n -> ExcludeEntries] : n \in 1..MaxExcludes}

InitExclude ==
    /\ pages = {}
    /\ atts = {}
    /\ nextId = FirstFreeId
    /\ replaceOk = TRUE
    /\ log = <<>>
    /\ err = "ok"
    /\ ret = None
    /\ \E paths_dict \in PathsDicts, exclude_list \in ExcludeLists :
         call = [NoCall EXCEPT !.file = File(MasterFileName, paths_dict),
                               !.valid = exclude_list]
    /\ pre = NoSnapshot
    /\ pc = "idle"
    /\ runs = 0
    /\ partials = <<>>
    /\ spec = <<>>
    /\ master_id = None
    /\ partials_parent_id = None
    /\ partial_titles = <<>>
    /\ hist = <<>>

\* remove_excluded_paths(openapi_spec["paths"], excluded_list)
CallExclude ==
    /\ call.fn = "none"
    /\ call' = [call EXCEPT !.fn = "remove_excluded_paths"]
    /\ ret' = remove_excluded_paths(call.file.text, call.valid)
    /\ UNCHANGED <<remoteVars, log, err, pre, mainVars>>

NextExclude == CallExclude

SpecExclude == InitExclude /\ [][NextExclude]_vars

ExcludeReturned == call.fn = "remove_excluded_paths"
Entries == {strip(call.valid[i]) : i \in 1..Len(call.valid)}

\* The docstring's own classification of its two examples: /api/v1 is a
\* "parent" entry, /api/v1/alerts is a "child" entry.
ParentEntries == {ApiV1}

\* C21: a path is removed exactly when it equals an entry or starts with a
\* parent entry followed by "/"; the paths below a child entry are kept, and
\* every path that is kept is unchanged and in its place.
C21_ChildEntryExactOnly ==
    ExcludeReturned =>
        ret = SelectSeq(call.file.text,
                        LAMBDA e : ~(\/ e.key \in Entries
                                     \/ \E ex \in Entries \cap ParentEntries :
                                           startswith(e.key, ex \o <<"/">>)))

-----------------------------------------------------------------------------
(* codecollection-score/score.py: analyze_codebundles *)

MinScore == 1
MaxScore == 5
MaxTasks == 2

\* load_persistent_data(): the "task_results" of the file the last run saved,
\* or the default (no results) when there is no file yet.
load_persistent_data == IF hist = <<>> THEN <<>> ELSE hist[Len(hist)]

\* score_task_title: the score of the first persisted entry with this title;
\* otherwise the score the reference data or the LLM gives a task that was not
\* scored before (fresh).
score_task_title(title, fresh, existing_data) ==
    LET known == {k \in 1..Len(existing_data) : existing_data[k].task = title}
    IN IF known # {}
       THEN existing_data[CHOOSE k \in known : \A n \in known : k <= n].score
       ELSE fresh

\* apply_runbook_issue_rules: max(score - 1, 1) without an issue, min(score + 1, 5)
\* with a dynamic issue.
apply_runbook_issue_rules(base_score, has_issue, issue_is_dynamic) ==
    IF ~has_issue
    THEN (IF base_score - 1 > MinScore THEN base_score - 1 ELSE MinScore)
    ELSE IF issue_is_dynamic
         THEN (IF base_score + 1 < MaxScore THEN base_score + 1 ELSE MaxScore)
    ELSE base_score

\* is_runbook = "runbook.robot" in file_name.lower()
RunbookFile == <<"runbook.robot">>
SliFile == <<"sli.robot">>

\* The loop over the tasks of one robot file: all_task_results, which is
\* returned and saved.
analyze_codebundles(robot_file, existing_data) ==
    LET is_runbook == robot_file.name = RunbookFile
        tasks == robot_file.text
    IN [i \in 1..Len(tasks) |->
           LET t == tasks[i]
               base_score == score_task_title(t.name, t.fresh, existing_data)
               final_score == IF is_runbook
                              THEN apply_runbook_issue_rules(base_score, t.has_issue,
                                                             t.issue_is_dynamic)
                              ELSE base_score
           IN [task |-> t.name, score |-> final_score]]

\* Robot files: a runbook.robot or an sli.robot with up to MaxTasks tasks;
\* fresh is the score the reference data or the LLM gives the title.
RobotTasks ==
    [name : {"t1", "t2"}, fresh : MinScore..MaxScore,
     has_issue : BOOLEAN, issue_is_dynamic : BOOLEAN]
RobotFiles ==
    {File(name, tasks) :
        name \in {RunbookFile, SliFile},
        tasks \in UNION {[1..n -> {t \in RobotTasks : t.issue_is_dynamic => t.has_issue}] :
                            n \in 1..MaxTasks}}

InitScore ==
    /\ pages = {}
    /\ atts = {}
    /\ nextId = FirstFreeId
    /\ replaceOk = TRUE
    /\ log = <<>>
    /\ err = "ok"
    /\ ret = None
    /\ \E robot_file \in RobotFiles :
         call = [NoCall EXCEPT !.file = robot_file]
    /\ pre = NoSnapshot
    /\ pc = "idle"
    /\ runs = 0
    /\ partials = <<>>
    /\ spec = <<>>
    /\ master_id = None
    /\ partials_parent_id = None
    /\ partial_titles = <<>>
    /\ hist = <<>>

\* One run of analyze_codebundles on the unchanged file: the results are
\* returned and saved to the persistent file.
RunAnalyze ==
    /\ runs < MaxRuns
    /\ LET all_task_results == analyze_codebundles(call.file, load_persistent_data)
       IN /\ ret' = all_task_results
          /\ hist' = Append(hist, all_task_results)
    /\ call' = [call EXCEPT !.fn = "analyze_codebundles"]
    /\ runs' = runs + 1
    /\ UNCHANGED <<remoteVars, log, err, pre, pc, partials, spec, master_id,
                   partials_parent_id, partial_titles>>

NextScore == RunAnalyze

SpecScore == InitScore /\ [][NextScore]_vars

\* C30: every run after the first, on the unchanged file and with the results
\* file the run before it saved, gives every task the score that run gave it.
C30_SecondRunSameScores ==
    \A k \in 2..Len(hist) :
        \A i \in 1..Len(hist[k]) : hist[k][i].score = hist[k - 1][i].score

====
